---- MODULE Spec2Model ----
(***************************************************************************)
(* A model of tatutanatata, a command line exporter for Tuta mail.         *)
(*                                                                         *)
(* Several state machines share this module:                               *)
(*   SpecStream  Client::stream (src/src/client.rs): the fetcher task, the *)
(*               bounded channel and the consumer of a paginated listing.  *)
(*   Spec        main and exec_cmd (src/src/main.rs): login, the command   *)
(*               raced against the signal listeners, the bounded download  *)
(*               fan-out writing files, and logout.                        *)
(*   SpecRetry   the retry wrappers of client.rs and retry.rs.             *)
(*   SpecSession Session::login, GroupKeys and get_mail_membership.        *)
(*   SpecDecrypt decrypt and decrypt_value (crypto/encryption.rs).         *)
(*   SpecDecode  Mail::decode (mails.rs).                                  *)
(*   SpecEml     the header part of emit_eml (eml.rs).                     *)
(* Each specification keeps the other machines' variables at their rest    *)
(* values.                                                                 *)
(***************************************************************************)
EXTENDS Integers, Sequences, FiniteSets, TLC

(***************************************************************************)
(* Bounds of the model.                                                    *)
(***************************************************************************)
\* Longest server list the pagination model enumerates.
MaxList == 13

\* client.rs:18 sets STREAM_BATCH_SIZE to 1000.  The model scales the page
\* size down so that lists shorter than, equal to and longer than one page
\* (and longer than two) are all enumerated.
STREAM_BATCH_SIZE == 3

\* client.rs:19
STREAM_BUFFER_SIZE == 4 * STREAM_BATCH_SIZE

\* client.rs:57: the initial cursor "------------".  Element ids are compared
\* by the server as strings and '-' is the smallest character of the id
\* alphabet, so the literal sorts before every id.  Ids are modelled as the
\* naturals 1, 2, ... and the literal as the number below all of them.
FIRST_START == 0

\* Most mails the folder of a download run holds.
MaxMails == 3

\* Largest --concurrent-downloads value enumerated (main.rs:74-75; any usize
\* is accepted, 0 included).
MaxConcurrent == 2

\* Number of distinct target file names the mails of the folder can map to.
MaxNames == 2

\* Number of write calls write_all needs for one EML (file_output.rs:17).
NumChunks == 2

\* file_output.rs:35 allows 10 retries of a rename that fails with NotFound;
\* the model scales the number down.
RENAME_RETRIES == 1

\* Attempts of one retried call that the model tells apart; later attempts
\* count as the MaxAttempts-th (neither wrapper limits their number).
MaxAttempts == 3

\* retry.rs:55 sets the deadline to 600 s and retry.rs:53 caps one sleep at
\* 60 s; the model scales both down to a few ticks.
RETRY_DEADLINE == 4

RETRY_CAP == 2

\* Most challenges a sessionservice response carries and most memberships
\* a user response carries in the model.
MaxChallenges == 2

MaxMemberships == 3

\* encryption.rs:17 sets IV_LEN to 16 and encryption.rs:55 MAC_LEN to 32; an
\* AES block has 16 bytes.  The model scales the three lengths down and
\* keeps them even, so that the parity of a ciphertext's length says what it
\* says in the code.
IV_LEN == 2

MAC_LEN == 2

BLOCK_LEN == 2

\* Most header lines the server delivers for one mail in the model.
MaxHeaderLines == 3

\* Most blob downloads of one run and most servers of one access reply in
\* the model.
MaxBlobCalls == 2

MaxServers == 2

\* Most attachments of a mail and most blobs of a file in the model.
MaxAttachments == 2

MaxFileBlobs == 1

\* Most calls the function handed to run_webdriver makes on the driver.
MaxDriverCalls == 3

\* http::StatusCode constants named by client.rs:278-279.
REQUEST_TIMEOUT == 408

TOO_MANY_REQUESTS == 429

\* session.rs:176
GENERATE_ID_BYTES_LENGTH == 9

\* Retransmissions of one request by client.rs retry() that the model
\* enumerates (the strategy of client.rs:267-269 has no limit).
MaxResend == 1

VARIABLES
    \* ---- main ----
    main_pc,      \* "login" | "cmd" | "logout" | "logout_wait" | "exit"
    logged_in,    \* Session::login has succeeded
    command,      \* args.command: "ListFolders" | "Download"
    conc,         \* cfg.concurrent_downloads
    cmd_pc,       \* the exec_cmd(..).cancel_on_signal() future: "listen" |
                  \* "start" | "find_folder" | "mails" | "returned" | "dropped"
    cmd_res,      \* cmd_res of main.rs:117: "none" | "Ok" | "Err"
    logout_res,   \* logout_res of main.rs:121: "none" | "Ok" | "Err"
    exit_errs,    \* the errors the result of main carries
    logout_calls, \* logout requests issued (do_no_response of session.rs:117)
    logout_sends, \* transmissions of the logout request, retries included
    signalled,    \* a signal arm of the select! of signal.rs:18 was taken
    \* ---- exec_cmd, download ----
    mails,        \* the mails Mail::list yields: the target name of each
    next_mail,    \* index of the next item buffer_unordered pulls
    task,         \* per mail: position of its future (main.rs:165-212)
    tfd,          \* per mail: the inode its open temp file handle refers to
    tpos,         \* per mail: chunks written through the handle so far
    ttries,       \* per mail: rename retries used
    \* ---- file system ----
    dir_target,   \* per name: inode at the target .eml path, 0 if absent
    dir_part,     \* per name: inode at the .part temp path, 0 if absent
    content,      \* per inode: the chunks it holds (0: a hole)
    \* ---- Client::stream ----
    server,       \* the server's list: element ids in server order
    next_start,   \* the fetcher's cursor (client.rs:57)
    fetch_pc,     \* fetcher position: "request" | "send" | "senderr" | "done" | "aborted"
    elements,     \* the rest of the page the for loop of client.rs:95 sends
    chan,         \* content of the mpsc channel (client.rs:50)
    rx,           \* the consumer's end: "open" | "ended" | "dropped"
    received,     \* the items the consumer has received, in order
    requests,     \* the start parameter of every page request issued
    pages         \* every page the server returned, in order

\* ---- the retry wrappers (client.rs:259-296, retry.rs:10-39) ----
VARIABLES
    retry_wrapper,   \* "client" (client.rs:259) | "deadline" (retry.rs:10)
    should_retry,    \* the predicate in use: "condition" | "always" | "never"
    retry_pc,        \* "attempt" | "sleep" | "returned"
    retry_attempts,  \* attempts completed, counted up to MaxAttempts
    retry_last,      \* outcome of the latest attempt
    retry_result,    \* "none" | "Ok" | "Err" | "failed" | "deadline exceeded"
    retry_elapsed,   \* time since the call, counted up to RETRY_DEADLINE
    retry_sleep      \* time the current back-off sleep still lasts

retryVars == <<retry_wrapper, should_retry, retry_pc, retry_attempts, retry_last,
               retry_result, retry_elapsed, retry_sleep>>

\* ---- Session::login and the session it returns (session.rs) ----
VARIABLES
    login_pc,        \* "salt" | "session" | "user" | "returned"
    login_requests,  \* the paths requested so far, in order
    challenges,      \* number of challenges in the sessionservice response
    user_data,       \* <<>> or <<the UserResponse>>
    login_result,    \* "none" | "Ok" | the context of the error returned
    group_keys,      \* <<>> or <<GroupKeys.keys>>: a function group id -> key
    got,             \* per group id: the results GroupKeys::get has returned
    mail_membership, \* <<>> or <<the result of get_mail_membership>>
    access_token,    \* <<>> or <<the number of bytes of Session.access_token>>
    session_logout   \* "none" | "Ok" | "session deletion" | "panicked"

sessionVars == <<login_pc, login_requests, challenges, user_data, login_result,
                 group_keys, got, mail_membership, access_token, session_logout>>

\* ---- decrypt and decrypt_value (crypto/encryption.rs) ----
VARIABLES
    encryption_key,  \* the key argument
    value,           \* the bytes argument
    original,        \* the ciphertext `value` was made from by changing one byte
    changed_at,      \* position of the changed byte, 0 if none was changed
    called,          \* "none" | "decrypt_value" | "decrypt"
    decrypted        \* the result of the call

decryptVars == <<encryption_key, value, original, changed_at, called, decrypted>>

\* ---- Mail::decode (mails.rs) ----
VARIABLES
    resp,            \* the MailReponse argument
    decoded          \* <<>> or <<the result of Mail::decode>>

decodeVars == <<resp, decoded>>

\* ---- emit_eml (eml.rs) ----
VARIABLES
    downloaded,      \* the DownloadedMail argument: headers and what the
                     \* synthesized headers depend on
    eml              \* <<>> or <<the result of the header part of emit_eml>>

emlVars == <<downloaded, eml>>

\* ---- run_webdriver (webdriver.rs) ----
VARIABLES
    wd_pc,                  \* "prefs" | "caps" | "new" | "maximize" | "f" |
                            \* "screenshot" | "quit" | "combine" | "returned"
    screenshot_on_failure,  \* config.screenshot_on_failure
    driver_calls,           \* the calls made on the WebDriver, in order
    res_f,                  \* the result of f
    res_screenshot,         \* the result of the screenshot step
    res_shutdown,           \* the result of driver.quit()
    wd_result               \* the result of run_webdriver

webdriverVars == <<wd_pc, screenshot_on_failure, driver_calls, res_f, res_screenshot,
                   res_shutdown, wd_result>>

\* ---- get_mail_blob, get_attachment_blob and get_access (blob.rs) ----
VARIABLES
    blob_pc,       \* "idle" | "get": between calls, or between the access
                   \* reply and the blob GET of the current call
    blob_calls,    \* the calls made so far, the last one being the current
    blob_access,   \* <<>> or <<the BlobAccess get_access has returned>>
    blob_log,      \* the requests sent so far, a POST with its reply
    blob_results   \* the results of the finished calls, in order

blobVars == <<blob_pc, blob_calls, blob_access, blob_log, blob_results>>

\* ---- Mail::download (mails.rs) ----
VARIABLES
    dl_pc,          \* "details" | "attachments" | "file" | "returned"
    dl_attachments, \* self.attachments: [group id, file id] pairs
    dl_files,       \* <<>> or <<the file infos received>>, a file info being
                    \* the number of blobs of the file
    dl_idx,         \* index of the file download_file is working on
    dl_blobs,       \* blobs of that file fetched so far
    dl_log,         \* the requests sent so far
    dl_attached,    \* number of attachments pushed
    dl_result       \* "none" | "Ok" | the error returned

downloadVars == <<dl_pc, dl_attachments, dl_files, dl_idx, dl_blobs, dl_log,
                  dl_attached, dl_result>>

\* The variables of the machines declared last.
lateVars == <<webdriverVars, blobVars, downloadVars>>

pureVars == <<decryptVars, decodeVars, emlVars, lateVars>>

\* The variables of the machines that are not the stream and not main.
otherVars == <<retryVars, sessionVars, pureVars>>

streamVars == <<server, next_start, fetch_pc, elements, chan, rx, received,
                requests, pages>>

mainVars == <<main_pc, logged_in, cmd_res, logout_res, exit_errs,
              logout_calls, logout_sends, signalled>>
cfgVars == <<command, conc, mails>>
drvVars == <<cmd_pc, next_mail, task, tfd, tpos, ttries>>
fsVars == <<dir_target, dir_part, content>>

mainAll == <<mainVars, cfgVars, drvVars, fsVars>>

vars == <<streamVars, mainAll, otherVars>>

\* Result<Resp> items travelling through the channel.
OkItem(i) == [ok |-> TRUE, id |-> i]
ErrItem == [ok |-> FALSE, id |-> 0]

RECURSIVE Concat(_)
Concat(ss) == IF ss = <<>> THEN <<>> ELSE Head(ss) \o Concat(Tail(ss))

RECURSIVE SelectIds(_)
\* The ids of the Ok items of a sequence of items, in order.
SelectIds(items) ==
    IF items = <<>> THEN <<>>
    ELSE IF Head(items).ok THEN <<Head(items).id>> \o SelectIds(Tail(items))
         ELSE SelectIds(Tail(items))

RECURSIVE After(_, _)
\* The suffix of the id sequence s holding the ids greater than start.
After(s, start) ==
    IF s = <<>> THEN <<>>
    ELSE IF Head(s) > start THEN s ELSE After(Tail(s), start)

Take(s, n) == SubSeq(s, 1, IF Len(s) < n THEN Len(s) ELSE n)

\* The server's answer to GET ...?start=..&count=..&reverse=false
\* (client.rs:74-78): the first count elements after start.
ServerPage(start, count) == Take(After(server, start), count)

\* The id of an entity (Entity::id, the second component of _id).
EntityId(o) == o

\* A fetcher that starts after the first id instead of before it.
InitialStartSkipsFirst == FIRST_START + 1

\* client.rs:57
InitialStart == FIRST_START

\* A fetcher that takes the cursor from the first element of the page.
NextStartFromFirst(page) == EntityId(page[1])

\* client.rs:85-93: the cursor after a non-empty page.
NextStart(page) == EntityId(page[Len(page)])

\* client.rs:95-100: the elements handed to the send loop.
ElementsToSend(page) == page

\* A channel that hands out the newest item first.
ChanPushFront(c, item) == <<item>> \o c

\* tx.send on the bounded channel: append at the tail.
ChanPush(c, item) == Append(c, item)

StreamInit ==
    /\ server \in {[i \in 1..n |-> i] : n \in 0..MaxList}
    /\ next_start = InitialStart
    /\ fetch_pc = "request"
    /\ elements = <<>>
    /\ chan = <<>>
    /\ rx = "open"
    /\ received = <<>>
    /\ requests = <<>>
    /\ pages = <<>>

\* client.rs:66-93, Ok arm: one page request answered by the server.
FetchPageOk ==
    /\ fetch_pc = "request"
    /\ LET page == ServerPage(next_start, STREAM_BATCH_SIZE) IN
        /\ requests' = Append(requests, next_start)
        /\ pages' = Append(pages, page)
        /\ IF page = <<>>
           THEN /\ fetch_pc' = "done"
                /\ UNCHANGED <<next_start, elements>>
           ELSE /\ next_start' = NextStart(page)
                /\ elements' = ElementsToSend(page)
                /\ fetch_pc' = "send"
    /\ UNCHANGED <<otherVars, mainAll, server, chan, rx, received>>

\* client.rs:66-82, 102: the request fails (after the retries of do_json).
FetchPageErr ==
    /\ fetch_pc = "request"
    /\ requests' = Append(requests, next_start)
    /\ fetch_pc' = "senderr"
    /\ UNCHANGED <<otherVars, mainAll, server, next_start, elements, chan, rx, received, pages>>

\* A fetcher that goes on to the next page when the receiver is gone.
OnReceiverGoneFetchOn == "request"

\* client.rs:96-99: tx.send fails once the receiver is gone and the task
\* returns.
OnReceiverGone == "done"

\* A fetcher that goes on with the loop after a failed page.
AfterSendErrFetchOn == "request"

\* client.rs:102-106: the task returns after sending the error.
AfterSendErr == "done"

\* client.rs:95-100: one iteration of the send loop.
SendElement ==
    /\ fetch_pc = "send"
    /\ IF rx = "dropped"
       THEN \* receiver gone
            /\ fetch_pc' = OnReceiverGone
            /\ UNCHANGED <<elements, chan>>
       ELSE /\ Len(chan) < STREAM_BUFFER_SIZE
            /\ chan' = ChanPush(chan, OkItem(Head(elements)))
            /\ elements' = Tail(elements)
            /\ fetch_pc' = IF Tail(elements) = <<>> THEN "request" ELSE "send"
    /\ UNCHANGED <<otherVars, mainAll, server, next_start, rx, received, requests, pages>>

\* client.rs:102-106: the error is sent and the task returns.
SendErr ==
    /\ fetch_pc = "senderr"
    /\ IF rx = "dropped"
       THEN UNCHANGED chan
       ELSE /\ Len(chan) < STREAM_BUFFER_SIZE
            /\ chan' = ChanPush(chan, ErrItem)
    /\ fetch_pc' = AfterSendErr
    /\ UNCHANGED <<otherVars, mainAll, server, next_start, elements, rx, received, requests, pages>>

\* client.rs:112-114: rx.recv() yields the next buffered item.
Recv ==
    /\ rx = "open"
    /\ chan # <<>>
    /\ received' = Append(received, Head(chan))
    /\ chan' = Tail(chan)
    /\ UNCHANGED <<otherVars, mainAll, server, next_start, fetch_pc, elements, rx, requests, pages>>

\* client.rs:112-114: rx.recv() yields None once the sender is gone and the
\* buffer is drained; the unfold stream ends.
RecvNone ==
    /\ rx = "open"
    /\ chan = <<>>
    /\ fetch_pc \in {"done", "aborted"}
    /\ rx' = "ended"
    /\ UNCHANGED <<otherVars, mainAll, server, next_start, fetch_pc, elements, chan, received,
                   requests, pages>>

\* The consumer drops the stream: StreamState (client.rs:189-193) drops the
\* receiver with its buffer and the JoinSet.
DropStream ==
    /\ rx = "open"
    /\ rx' = "dropped"
    /\ chan' = <<>>
    /\ UNCHANGED <<otherVars, mainAll, server, next_start, fetch_pc, elements, received,
                   requests, pages>>

\* Dropping the JoinSet (client.rs:55, 192) aborts the fetcher at a
\* suspension point.
AbortFetch ==
    /\ rx = "dropped"
    /\ fetch_pc \in {"request", "send", "senderr"}
    /\ fetch_pc' = "aborted"
    /\ UNCHANGED <<otherVars, mainAll, server, next_start, elements, chan, rx, received,
                   requests, pages>>

StreamNext ==
    \/ FetchPageOk
    \/ FetchPageErr
    \/ SendElement
    \/ SendErr
    \/ Recv
    \/ RecvNone
    \/ DropStream
    \/ AbortFetch

(***************************************************************************)
(* Claims about Client::stream, checked under SpecStream.                  *)
(***************************************************************************)
IsPrefix(s, t) == Len(s) <= Len(t) /\ SubSeq(t, 1, Len(s)) = s

\* No page request has failed: every request issued was answered by a page.
NoFetchError == Len(requests) = Len(pages)

\* The stream ran to its end: the consumer saw None and no request failed.
StreamEndedNormally == rx = "ended" /\ NoFetchError

\* C4: the elements the consumer receives are the concatenation of the pages
\* the server returned, in page order and in within-page order: while the
\* consumer holds the stream, what it received, what the channel buffers and
\* what the fetcher still has to send make up exactly that concatenation (no
\* element dropped, duplicated or reordered); what it received is always a
\* prefix of it; and when the stream ends without a failed request the
\* consumer has received all of it, the last page being the first empty one.
C4_StreamIsConcatenationOfPages ==
    /\ IsPrefix(SelectIds(received), Concat(pages))
    /\ rx # "dropped" =>
         SelectIds(received) \o SelectIds(chan) \o elements = Concat(pages)
    /\ StreamEndedNormally =>
         /\ SelectIds(received) = Concat(pages)
         /\ received = [i \in 1..Len(received) |-> OkItem(received[i].id)]
         /\ pages[Len(pages)] = <<>>
         /\ \A k \in 1..(Len(pages) - 1) : pages[k] # <<>>

\* A stream of more than two pages was consumed to its end.
C4_Witness ==
    /\ StreamEndedNormally
    /\ Len(pages) > 3
    /\ Len(received) > 2 * STREAM_BATCH_SIZE

\* C5: the first page request uses the initial cursor "------------"; every
\* later request uses the id of the last element of the page before it; and
\* an empty page is the last page, with no request after it.
C5_CursorFollowsLastElement ==
    /\ requests # <<>> => requests[1] = FIRST_START
    /\ \A k \in 2..Len(requests) :
         /\ pages[k - 1] # <<>>
         /\ requests[k] = EntityId(pages[k - 1][Len(pages[k - 1])])
    /\ \A k \in 1..Len(pages) :
         pages[k] = <<>> => k = Len(pages) /\ Len(requests) = k /\ fetch_pc = "done"

\* Three requests were issued and the third returned the empty page.
C5_Witness ==
    /\ Len(requests) = 3
    /\ Len(pages) = 3
    /\ pages[3] = <<>>
    /\ requests[3] = server[Len(server)]

\* C6 as stated: for a server list shorter than one page the stream issues
\* exactly one page request and emits all N elements.
C6_SinglePageRequest ==
    (StreamEndedNormally /\ Len(server) < STREAM_BATCH_SIZE) =>
        /\ Len(requests) = 1
        /\ SelectIds(received) = server

\* C6 amended: for a server list shorter than one page the stream emits all N
\* elements and fetches at most one non-empty page; an empty list takes one
\* request, a non-empty one takes two, the second returning the empty page
\* that ends the stream.
C6_OnePageThenEmptyPage ==
    (StreamEndedNormally /\ Len(server) < STREAM_BATCH_SIZE) =>
        /\ SelectIds(received) = server
        /\ Cardinality({k \in 1..Len(pages) : pages[k] # <<>>}) =
             (IF server = <<>> THEN 0 ELSE 1)
        /\ Len(requests) = (IF server = <<>> THEN 1 ELSE 2)

\* A non-empty list shorter than one page was streamed to its end.
C6_Witness ==
    /\ StreamEndedNormally
    /\ server # <<>>
    /\ Len(server) < STREAM_BATCH_SIZE
    /\ Len(received) = Len(server)
    /\ Len(requests) = 2

\* How far the fetcher is from its end: a page request is followed by
\* sends, a send loop by the end of the task.
FetchRank(pc) ==
    CASE pc = "request" -> 2
      [] pc \in {"send", "senderr"} -> 1
      [] pc \in {"done", "aborted"} -> 0

\* C23: once the consumer has dropped the stream, the fetcher delivers no
\* further element and stops: every step it still takes brings it nearer
\* to its end, where it exits at its next channel send or is aborted, so it
\* issues at most the one page request it was about to issue and never goes
\* back to requesting pages.
C23_FetcherStopsAfterDrop ==
    [][ rx = "dropped" =>
          /\ rx' = "dropped"
          /\ received' = received
          /\ chan' = <<>>
          /\ FetchRank(fetch_pc') < FetchRank(fetch_pc)
          /\ Len(requests') <= Len(requests) + 1
          /\ requests' # requests => fetch_pc = "request" ]_vars

\* The consumer dropped the stream while the fetcher was sending the second
\* page, and the fetcher exited at its next send with elements left over.
C23_Witness ==
    /\ rx = "dropped"
    /\ fetch_pc = "done"
    /\ elements # <<>>
    /\ Len(requests) = 2
    /\ Len(server) > 2 * STREAM_BATCH_SIZE

\* The items the consumer gets from pages ps when the request after them
\* fails.
ItemsThenErr(ps) ==
    [i \in 1..Len(Concat(ps)) |-> OkItem(Concat(ps)[i])] \o <<ErrItem>>

\* C27: when a page fetch fails, the consumer receives all elements of the
\* earlier pages, then exactly one Err item, then the end of the stream, and
\* the fetcher issues no page request after the failed one.
C27_FailedPageEndsStream ==
    [][ /\ ~NoFetchError => requests' = requests /\ pages' = pages
        /\ (~NoFetchError' /\ rx' # "dropped") =>
              /\ IsPrefix(received', ItemsThenErr(pages'))
              /\ fetch_pc' = "done" => received' \o chan' = ItemsThenErr(pages')
              /\ rx' = "ended" => received' = ItemsThenErr(pages') ]_vars

\* The third page request failed and the consumer saw the two pages before
\* it, the error and the end of the stream.
C27_Witness ==
    /\ rx = "ended"
    /\ Len(requests) = 3
    /\ Len(pages) = 2
    /\ Len(received) = 2 * STREAM_BATCH_SIZE + 1
    /\ ~received[Len(received)].ok

(***************************************************************************)
(* main and exec_cmd (src/src/main.rs), write_to_file                      *)
(* (src/src/file_output.rs), cancel_on_signal (src/src/signal.rs) and      *)
(* Session::logout (src/src/session.rs).                                   *)
(***************************************************************************)
Names == 1..MaxNames
Mails == 1..Len(mails)

\* Inodes: one per pre-existing target file (negative), one per temp file a
\* mail task creates (the index of the mail).
OldInode(n) == 0 - n
Inodes == {OldInode(n) : n \in Names} \cup (1..MaxMails)

\* A complete file written for tag v: every chunk present and written for v.
Full(v) == [i \in 1..NumChunks |-> v]

\* The bytes at a path are the complete EML of some mail.
IsCompleteEml(c) == \E v \in Inodes : c = Full(v)

\* A write of chunk number pos for tag v through a handle at that offset; a
\* write past the end of a truncated file leaves a hole before it.
WriteAt(c, pos, v) ==
    [i \in 1..(IF Len(c) > pos THEN Len(c) ELSE pos) |->
        IF i = pos THEN v ELSE IF i <= Len(c) THEN c[i] ELSE 0]

\* main.rs:168-175: the target path of a mail is made of its received date
\* formatted to the second and the first 64 characters of its escaped
\* subject; the mail id is no part of it.  A mail is modelled by that name,
\* and two mails of a folder may have the same one.  file_output.rs:8: the
\* temp path is a function of the target path, so the model keeps one
\* target entry and one temp entry per name.
TargetOf(m) == mails[m]

InFlightPcs == {"listerr", "exists", "download", "open", "write", "shutdown", "rename"}

\* The futures buffer_unordered holds (main.rs:214).
InFlight == {m \in Mails : task[m] \in InFlightPcs}

\* A buffer that admits one future more than its limit.
HasFreeSlotOffByOne == Cardinality(InFlight) <= conc

\* BufferUnordered pulls the next future only below the limit (main.rs:214).
HasFreeSlot == Cardinality(InFlight) < conc

\* A task that downloads the mail again although its file exists.
AfterExistsAlwaysDownload(exists) == "download"

\* main.rs:177-209: an existing target ends the task with Ok(()) at once;
\* otherwise the download follows.
AfterExists(exists) == IF exists THEN "ok" ELSE "download"

\* A main that returns the command's error at once (a `?` on main.rs:120).
AfterCommandEarlyReturn(res) == IF res = "Err" THEN "exit" ELSE "logout"

\* main.rs:117-121: whatever the command's result, main goes on to logout.
AfterCommand(res) == "logout"

\* A command that was spawned as a task of its own keeps running when a
\* signal arm wins.
CmdPcOnSignalDetached == cmd_pc

\* signal.rs:18-31: when a signal arm of select! wins, the command future
\* is dropped.
CmdPcOnSignal == "dropped"

\* A cancel_on_signal that reports the cancellation as an error.
ResultOnSignalCancelled == "Err"

\* signal.rs:21 and 26: the signal arms return Ok(()).
ResultOnSignal == "Ok"

\* A strategy that has one delay more than the retries allowed.
MayRetryRenameOnceMore(tries) == tries <= RENAME_RETRIES

\* file_output.rs:32-35: take() ends the strategy after RENAME_RETRIES
\* delays; RetryIf retries while the strategy yields a delay.
MayRetryRename(tries) == tries < RENAME_RETRIES

\* A driver that collects every result and goes on after a failure.
CmdPcOnTaskErrorContinue == "mails"

\* main.rs:215-216: try_collect returns the first error to exec_cmd.
CmdPcOnTaskError == "returned"

\* main.rs:123-127: the result of main from the two results.
MainResult(c, l) ==
    IF c = "Err" THEN {"cmd"}
    ELSE IF l = "Err" THEN {"logout"}
    ELSE {}

\* Dropping the command future drops every future of the buffer; the failed
\* one, if any, is marked.
DropTasks(failed) ==
    [m \in DOMAIN task |->
        IF m = failed THEN "err"
        ELSE IF task[m] \in InFlightPcs THEN "dropped"
        ELSE task[m]]

\* Target names of the folder's mails, up to renaming of the names: the
\* first mail has name 1 and each mail has an earlier name or the next one.
RECURSIVE NameSeqs(_)
NameSeqs(n) ==
    IF n = 0 THEN {<<>>}
    ELSE UNION {{Append(s, k) :
                    k \in {j \in Names : \A i \in 1..(j - 1) :
                                \E p \in 1..Len(s) : s[p] = i}} :
                s \in NameSeqs(n - 1)}

MainInit ==
    /\ main_pc = "login"
    /\ logged_in = FALSE
    /\ command \in {"ListFolders", "Download"}
    /\ conc \in 0..MaxConcurrent
    /\ cmd_pc = "listen"
    /\ cmd_res = "none"
    /\ logout_res = "none"
    /\ exit_errs = {}
    /\ logout_calls = 0
    /\ logout_sends = 0
    /\ signalled = FALSE
    /\ mails \in UNION {NameSeqs(n) : n \in 0..MaxMails}
    /\ (command = "ListFolders" => mails = <<>> /\ conc = 0)
    /\ next_mail = 1
    /\ task = [m \in 1..Len(mails) |-> "none"]
    /\ tfd = [m \in 1..Len(mails) |-> 0]
    /\ tpos = [m \in 1..Len(mails) |-> 0]
    /\ ttries = [m \in 1..Len(mails) |-> 0]
    \* Target files left by earlier runs are complete.  Only files at the
    \* target paths of the folder's mails are enumerated: the run touches
    \* no other path.
    /\ \E old \in SUBSET {mails[m] : m \in 1..Len(mails)} :
         /\ (command = "ListFolders" => old = {})
         /\ dir_target = [n \in Names |-> IF n \in old THEN OldInode(n) ELSE 0]
         /\ content = [i \in Inodes |->
                          IF i < 0 /\ (0 - i) \in old THEN Full(i) ELSE <<>>]
    /\ dir_part = [n \in Names |-> 0]

\* main.rs:113-115
LoginOk ==
    /\ main_pc = "login"
    /\ logged_in' = TRUE
    /\ main_pc' = "cmd"
    /\ UNCHANGED <<otherVars, streamVars, cmd_res, logout_res, exit_errs, logout_calls, logout_sends,
                   signalled, cfgVars, drvVars, fsVars>>

\* main.rs:105-115: set-up or login fails and main returns through `?`.
LoginFail ==
    /\ main_pc = "login"
    /\ main_pc' = "exit"
    /\ exit_errs' = {"login"}
    /\ UNCHANGED <<otherVars, streamVars, logged_in, cmd_res, logout_res, logout_calls, logout_sends,
                   signalled, cfgVars, drvVars, fsVars>>

\* The command future ends with result res: main.rs:117-121.
CommandEnds(res) ==
    /\ cmd_res' = res
    /\ main_pc' = AfterCommand(res)

\* signal.rs:15-16: the listeners are installed, select! starts polling.
ListenOk ==
    /\ main_pc = "cmd"
    /\ cmd_pc = "listen"
    /\ cmd_pc' = "start"
    /\ UNCHANGED <<otherVars, streamVars, mainVars, cfgVars, next_mail, task, tfd, tpos, ttries, fsVars>>

\* signal.rs:15: wait_signal()? fails; the command is never polled.
ListenFail ==
    /\ main_pc = "cmd"
    /\ cmd_pc = "listen"
    /\ cmd_pc' = "dropped"
    /\ CommandEnds("Err")
    /\ UNCHANGED <<otherVars, streamVars, logged_in, logout_res, exit_errs, logout_calls, logout_sends,
                   signalled, cfgVars, next_mail, task, tfd, tpos, ttries, fsVars>>

\* A select! arm other than the command's wins and ends cancel_on_signal
\* with res; the command future is dropped with all its tasks.
SelectArmWins(res) ==
    /\ main_pc = "cmd"
    /\ cmd_pc \in {"start", "find_folder", "mails"}
    /\ CommandEnds(res)
    /\ signalled' = TRUE
    /\ cmd_pc' = CmdPcOnSignal
    /\ task' = DropTasks(0)
    /\ tfd' = [m \in DOMAIN tfd |-> 0]
    /\ tpos' = [m \in DOMAIN tpos |-> 0]
    /\ ttries' = [m \in DOMAIN ttries |-> 0]
    /\ UNCHANGED <<otherVars, streamVars, logged_in, logout_res, exit_errs, logout_calls, logout_sends,
                   cfgVars, next_mail, fsVars>>

\* signal.rs:19-22 and 23-27: SIGTERM or Ctrl-C is delivered and its arm
\* wins the select!.
Signal == SelectArmWins(ResultOnSignal)

\* signal.rs:23-24: the Ctrl-C listener resolves with an error and the arm
\* returns it.
CtrlCListenerFails == SelectArmWins("Err")

\* main.rs:132-141: the list-folders command.
ListFoldersRun ==
    /\ main_pc = "cmd"
    /\ cmd_pc = "start"
    /\ command = "ListFolders"
    /\ cmd_pc' = "returned"
    /\ \E res \in {"Ok", "Err"} : CommandEnds(res)
    /\ UNCHANGED <<otherVars, streamVars, logged_in, logout_res, exit_errs, logout_calls, logout_sends,
                   signalled, cfgVars, next_mail, task, tfd, tpos, ttries, fsVars>>

\* main.rs:144-146: create_dir_all.
CreateDirOk ==
    /\ main_pc = "cmd"
    /\ cmd_pc = "start"
    /\ command = "Download"
    /\ cmd_pc' = "find_folder"
    /\ UNCHANGED <<otherVars, streamVars, mainVars, cfgVars, next_mail, task, tfd, tpos, ttries, fsVars>>

\* main.rs:149-159: the folder is found and the mail stream is set up.
FindFolderOk ==
    /\ main_pc = "cmd"
    /\ cmd_pc = "find_folder"
    /\ cmd_pc' = "mails"
    /\ UNCHANGED <<otherVars, streamVars, mainVars, cfgVars, next_mail, task, tfd, tpos, ttries, fsVars>>

\* main.rs:144-158: create_dir_all or the folder listing fails, or no folder
\* has the name.
SetupFail ==
    /\ main_pc = "cmd"
    /\ cmd_pc \in {"start", "find_folder"}
    /\ command = "Download"
    /\ cmd_pc' = "returned"
    /\ CommandEnds("Err")
    /\ UNCHANGED <<otherVars, streamVars, logged_in, logout_res, exit_errs, logout_calls, logout_sends,
                   signalled, cfgVars, next_mail, task, tfd, tpos, ttries, fsVars>>

\* The command future is alive and driving the buffered mail stream.
Driving == cmd_pc = "mails"

\* main.rs:161-214: buffer_unordered pulls the next mail and its future
\* joins the buffer.  The item is Ok(mail), or an Err the future returns at
\* its first poll (main.rs:166).
StartTask ==
    /\ Driving
    /\ HasFreeSlot
    /\ next_mail <= Len(mails)
    /\ \E first \in {"exists", "listerr"} :
         task' = [task EXCEPT ![next_mail] = first]
    /\ next_mail' = next_mail + 1
    /\ UNCHANGED <<otherVars, streamVars, mainVars, cfgVars, cmd_pc, tfd, tpos, ttries, fsVars>>

\* main.rs:177-187, 211: try_exists; an existing target ends the task.
TaskExists(m) ==
    /\ Driving
    /\ task[m] = "exists"
    /\ task' = [task EXCEPT ![m] = AfterExists(dir_target[TargetOf(m)] # 0)]
    /\ UNCHANGED <<otherVars, streamVars, mainVars, cfgVars, cmd_pc, next_mail, tfd, tpos, ttries, fsVars>>

\* main.rs:197-203: the mail is downloaded and its EML assembled.
TaskDownload(m) ==
    /\ Driving
    /\ task[m] = "download"
    /\ task' = [task EXCEPT ![m] = "open"]
    /\ UNCHANGED <<otherVars, streamVars, mainVars, cfgVars, cmd_pc, next_mail, tfd, tpos, ttries, fsVars>>

\* file_output.rs:8-15: open the temp file with create and truncate.
TaskOpen(m) ==
    /\ Driving
    /\ task[m] = "open"
    /\ LET n == TargetOf(m)
           ino == IF dir_part[n] = 0 THEN m ELSE dir_part[n] IN
        /\ dir_part' = [dir_part EXCEPT ![n] = ino]
        /\ content' = [content EXCEPT ![ino] = <<>>]
        /\ tfd' = [tfd EXCEPT ![m] = ino]
    /\ task' = [task EXCEPT ![m] = "write"]
    /\ UNCHANGED <<otherVars, streamVars, mainVars, cfgVars, cmd_pc, next_mail, tpos, ttries, dir_target>>

\* file_output.rs:17: write_all, one write call.
TaskWrite(m) ==
    /\ Driving
    /\ task[m] = "write"
    /\ content' = [content EXCEPT ![tfd[m]] = WriteAt(@, tpos[m] + 1, m)]
    /\ tpos' = [tpos EXCEPT ![m] = @ + 1]
    /\ task' = [task EXCEPT ![m] = IF tpos[m] + 1 = NumChunks THEN "shutdown" ELSE "write"]
    /\ UNCHANGED <<otherVars, streamVars, mainVars, cfgVars, cmd_pc, next_mail, tfd, ttries, dir_target, dir_part>>

\* file_output.rs:18: shutdown flushes the file.
TaskShutdown(m) ==
    /\ Driving
    /\ task[m] = "shutdown"
    /\ task' = [task EXCEPT ![m] = "rename"]
    /\ UNCHANGED <<otherVars, streamVars, mainVars, cfgVars, cmd_pc, next_mail, tfd, tpos, ttries, fsVars>>

\* file_output.rs:20, 25-49: rename the temp file to the target; NotFound
\* is retried while the strategy has delays left.
TaskRename(m) ==
    /\ Driving
    /\ task[m] = "rename"
    /\ LET n == TargetOf(m) IN
        \/ /\ dir_part[n] # 0
           /\ dir_target' = [dir_target EXCEPT ![n] = dir_part[n]]
           /\ dir_part' = [dir_part EXCEPT ![n] = 0]
           /\ task' = [task EXCEPT ![m] = "ok"]
           /\ tfd' = [tfd EXCEPT ![m] = 0]
           /\ tpos' = [tpos EXCEPT ![m] = 0]
           /\ ttries' = [ttries EXCEPT ![m] = 0]
        \/ /\ dir_part[n] = 0
           /\ MayRetryRename(ttries[m])
           /\ ttries' = [ttries EXCEPT ![m] = @ + 1]
           /\ UNCHANGED <<task, tfd, tpos, dir_target, dir_part>>
    /\ UNCHANGED <<otherVars, streamVars, mainVars, cfgVars, cmd_pc, next_mail, content>>

\* The command ends because the future of mail m failed.
FailCommand(m) ==
    /\ task' = DropTasks(m)
    /\ tfd' = [k \in DOMAIN tfd |-> 0]
    /\ tpos' = [k \in DOMAIN tpos |-> 0]
    /\ ttries' = [k \in DOMAIN ttries |-> 0]
    /\ cmd_pc' = CmdPcOnTaskError
    /\ CommandEnds("Err")
    /\ UNCHANGED <<otherVars, streamVars, logged_in, logout_res, exit_errs, logout_calls, logout_sends,
                   signalled, cfgVars, next_mail, fsVars>>

\* main.rs:166-208: the step the future of mail m is suspended at returns
\* an error (list item, existence check, download, EML assembly, open,
\* write, close, or a rename failing with another error than NotFound).
TaskFail(m) ==
    /\ Driving
    /\ task[m] \in InFlightPcs
    /\ FailCommand(m)

\* file_output.rs:25-49: the rename still fails with NotFound after the
\* last retry.
TaskRenameGivesUp(m) ==
    /\ Driving
    /\ task[m] = "rename"
    /\ dir_part[TargetOf(m)] = 0
    /\ ~MayRetryRename(ttries[m])
    /\ FailCommand(m)

\* main.rs:214-218: the mail stream is exhausted and the buffer is empty.
CmdDone ==
    /\ Driving
    /\ conc > 0
    /\ next_mail > Len(mails)
    /\ InFlight = {}
    /\ cmd_pc' = "returned"
    /\ CommandEnds("Ok")
    /\ UNCHANGED <<otherVars, streamVars, logged_in, logout_res, exit_errs, logout_calls, logout_sends,
                   signalled, cfgVars, next_mail, task, tfd, tpos, ttries, fsVars>>

\* main.rs:121, session.rs:112-131: the logout request is issued.
LogoutStart ==
    /\ main_pc = "logout"
    /\ main_pc' = "logout_wait"
    /\ logout_calls' = logout_calls + 1
    /\ logout_sends' = logout_sends + 1
    /\ UNCHANGED <<otherVars, streamVars, logged_in, cmd_res, logout_res, exit_errs, signalled,
                   cfgVars, drvVars, fsVars>>

\* client.rs:150, 259-296: a retryable failure; retry() sends the request
\* again.
LogoutResend ==
    /\ main_pc = "logout_wait"
    /\ logout_sends <= MaxResend
    /\ logout_sends' = logout_sends + 1
    /\ UNCHANGED <<otherVars, streamVars, main_pc, logged_in, cmd_res, logout_res, exit_errs,
                   logout_calls, signalled, cfgVars, drvVars, fsVars>>

\* session.rs:131-136 and main.rs:121-127: logout returns and main combines
\* the two results.
LogoutDone ==
    /\ main_pc = "logout_wait"
    /\ \E res \in {"Ok", "Err"} :
         /\ logout_res' = res
         /\ exit_errs' = MainResult(cmd_res, res)
    /\ main_pc' = "exit"
    /\ UNCHANGED <<otherVars, streamVars, logged_in, cmd_res, logout_calls, logout_sends, signalled,
                   cfgVars, drvVars, fsVars>>

MainNext ==
    \/ LoginOk
    \/ LoginFail
    \/ ListenOk
    \/ ListenFail
    \/ Signal
    \/ CtrlCListenerFails
    \/ ListFoldersRun
    \/ CreateDirOk
    \/ FindFolderOk
    \/ SetupFail
    \/ StartTask
    \/ \E m \in Mails : TaskExists(m)
    \/ \E m \in Mails : TaskDownload(m)
    \/ \E m \in Mails : TaskOpen(m)
    \/ \E m \in Mails : TaskWrite(m)
    \/ \E m \in Mails : TaskShutdown(m)
    \/ \E m \in Mails : TaskRename(m)
    \/ \E m \in Mails : TaskFail(m)
    \/ \E m \in Mails : TaskRenameGivesUp(m)
    \/ CmdDone
    \/ LogoutStart
    \/ LogoutResend
    \/ LogoutDone

C2_BothErrorsReported ==
    (main_pc = "exit" /\ cmd_res = "Err" /\ logout_res = "Err") =>
        exit_errs = {"cmd", "logout"}

C7_BoundedConcurrency ==
    /\ Cardinality(InFlight) <= conc
    /\ InFlight = {m \in Mails : m < next_mail /\ task[m] \notin {"ok", "err", "dropped"}}

\* The buffer is full at the largest limit with a further mail waiting.
C7_Witness ==
    /\ cmd_pc = "mails"
    /\ conc = MaxConcurrent
    /\ Cardinality(InFlight) = conc
    /\ next_mail <= Len(mails)

\* C11: a task that finds its target file existing skips the mail: its
\* next step ends it without a download (the step at which the blob-access,
\* detail-blob, file-info and attachment requests are issued) and without a
\* change to any file, and an ended task never moves again; a task enters
\* the download only from the existence check with the target absent, and
\* opens the temp file only after the download.
C11_ExistingTargetIsSkipped ==
    [][ \A m \in Mails :
          /\ (task[m] = "exists" /\ dir_target[TargetOf(m)] # 0 /\ task'[m] # "exists") =>
                /\ task'[m] \in {"ok", "err", "dropped"}
                /\ UNCHANGED fsVars
          /\ task[m] = "ok" => task'[m] = "ok"
          /\ (task'[m] = "download" /\ task[m] # "download") =>
                task[m] = "exists" /\ dir_target[TargetOf(m)] = 0
          /\ (task'[m] = "open" /\ task[m] # "open") => task[m] = "download"
          /\ (task'[m] = "write" /\ task[m] # "write") => task[m] = "open" ]_vars

\* The only mail of the folder was skipped and the file an earlier run left
\* is still in place.
C11_Witness ==
    /\ Len(mails) = 1
    /\ task[1] = "ok"
    /\ cmd_res = "Ok"
    /\ dir_target[TargetOf(1)] = OldInode(TargetOf(1))
    /\ content[OldInode(TargetOf(1))] = Full(OldInode(TargetOf(1)))
    /\ dir_part[TargetOf(1)] = 0

AnyTaskFailed == \E m \in Mails : task[m] = "err"

\* C8: the download command is fail-fast: when a mail task fails the command
\* has returned an error at once, the tasks that were in flight are dropped,
\* and from then on no mail task is started and no dropped task completes or
\* touches a file.
C8_FailFast ==
    [][ /\ AnyTaskFailed' =>
             /\ cmd_res' = "Err"
             /\ cmd_pc' = "returned"
             /\ InFlight' = {}
             /\ Cardinality({m \in Mails : task'[m] = "err"}) = 1
        /\ AnyTaskFailed => UNCHANGED <<task, next_mail, fsVars>> ]_vars

\* A task failed while another was in flight and a mail was not yet started.
C8_Witness ==
    /\ AnyTaskFailed
    /\ main_pc = "exit"
    /\ \E m \in Mails : task[m] = "dropped"
    /\ next_mail <= Len(mails)

\* C9: in every reachable state a file at a target .eml path either does not
\* exist or holds the complete EML of a mail.
C9_TargetAbsentOrComplete ==
    \A n \in Names :
        dir_target[n] = 0 \/ IsCompleteEml(content[dir_target[n]])

\* The run started in a directory without target files.
RanIntoEmptyDir == \A n \in Names : dir_target[n] >= 0

\* C10: a successful download run into an empty directory leaves one EML
\* file per mail: as many target files as mails listed, each mail's target
\* holding that mail's complete EML.
C10_OneFilePerMail ==
    (command = "Download" /\ cmd_pc = "returned" /\ cmd_res = "Ok" /\ RanIntoEmptyDir) =>
        /\ Cardinality({n \in Names : dir_target[n] # 0}) = Len(mails)
        /\ \A m \in Mails :
             /\ dir_target[TargetOf(m)] # 0
             /\ content[dir_target[TargetOf(m)]] = Full(m)

\* C29: on SIGTERM or Ctrl-C cancel_on_signal returns Ok(()) in place of
\* the command's result, whatever the command had got done, so main reports
\* no error whenever the logout that follows succeeds, although the
\* download did not complete.
C29_SignalledRunExitsOk ==
    [][ /\ Signal => cmd_res' = "Ok" /\ main_pc' = "logout"
        /\ (signalled' /\ cmd_res' = "Ok" /\ main_pc' = "exit" /\ logout_res' = "Ok") =>
              exit_errs' = {} ]_vars

\* A signal cut a download short before every mail was started, the logout
\* succeeded and main returned Ok.
C29_Witness ==
    /\ signalled
    /\ command = "Download"
    /\ cmd_res = "Ok"
    /\ main_pc = "exit"
    /\ logout_res = "Ok"
    /\ exit_errs = {}
    /\ next_mail <= Len(mails)
    /\ \E m \in Mails : task[m] = "dropped"

\* The rename of the temp file of mail m fails with NotFound.
RenameNotFound(m) == task[m] = "rename" /\ dir_part[TargetOf(m)] = 0

\* C30: the rename is attempted at most 1 + RENAME_RETRIES times; it is
\* retried only when the attempt failed with NotFound, any other failure
\* ending the task right after the failing attempt; and when the retries
\* are exhausted the task fails and the target file is not created.
C30_RenameRetriesBounded ==
    [][ \A m \in Mails :
          /\ ttries'[m] <= RENAME_RETRIES
          /\ ttries'[m] > ttries[m] =>
                /\ RenameNotFound(m)
                /\ ttries'[m] = ttries[m] + 1
                /\ task'[m] = "rename"
          /\ (task[m] = "rename" /\ task'[m] = "err") =>
                /\ dir_target' = dir_target
                /\ cmd_res' = "Err"
          /\ (RenameNotFound(m) /\ ttries[m] = RENAME_RETRIES /\ task'[m] # task[m]) =>
                task'[m] \in {"err", "dropped"} /\ dir_target' = dir_target ]_vars

\* The rename of a mail's temp file has failed with NotFound RENAME_RETRIES
\* times, every retry is used up and the file is still not there.
C30_Witness ==
    \E m \in Mails :
        /\ Driving
        /\ RenameNotFound(m)
        /\ ttries[m] = RENAME_RETRIES
        /\ dir_target[TargetOf(m)] # 0

(***************************************************************************)
(* The retry wrappers: client.rs:259-296 (tokio_retry::RetryIf, the one    *)
(* do_json, do_bytes and do_no_response call) and retry.rs:10-39 (a loop   *)
(* under tokio::time::timeout).                                            *)
(***************************************************************************)
Min(a, b) == IF a <= b THEN a ELSE b

\* reqwest::Error::status() of an error that carries no status.
NoStatus == 0

\* Statuses error_for_status (client.rs:181) turns into an error.
StatusCodes == {400, 401, 404, 407, 408, 409, 428, 429, 430, 499, 500, 501, 503, 599}

\* The outcome of one attempt as the wrapper sees it: Ok, or a
\* reqwest::Error with its is_connect(), is_timeout() and status().
Success == [ok |-> TRUE, connect |-> FALSE, timeout |-> FALSE, status |-> NoStatus]

Failures ==
    {[ok |-> FALSE, connect |-> c, timeout |-> t, status |-> NoStatus] : c, t \in BOOLEAN}
    \cup {[ok |-> FALSE, connect |-> FALSE, timeout |-> FALSE, status |-> st] :
            st \in StatusCodes}

\* http::StatusCode::is_server_error
is_server_error(status) == 500 <= status /\ status < 600

\* A condition that forgets 429.
conditionWithout429(e) ==
    e.connect \/ e.timeout
        \/ (e.status # NoStatus /\ (is_server_error(e.status) \/ e.status = REQUEST_TIMEOUT))

\* client.rs:271-286
condition(e) ==
    IF e.connect \/ e.timeout
    THEN TRUE
    ELSE IF e.status # NoStatus
            /\ (\/ is_server_error(e.status)
                \/ e.status = REQUEST_TIMEOUT
                \/ e.status = TOO_MANY_REQUESTS)
         THEN TRUE
         ELSE FALSE

\* The predicate the wrapper consults: client.rs:295 passes condition;
\* retry.rs:25 calls whatever its caller passed.
ShouldRetry(e) ==
    CASE should_retry = "condition" -> condition(e)
      [] should_retry = "always" -> TRUE
      [] should_retry = "never" -> FALSE

\* retry.rs:19 puts the loop under timeout(config.deadline); client.rs:295
\* awaits RetryIf::spawn with nothing around it.
DeadlineApplies == retry_wrapper = "deadline"

DeadlinePassed == DeadlineApplies /\ retry_elapsed >= RETRY_DEADLINE

\* The back-off sleeps.  retry.rs:76-85: between base (> 0) and the cap.
\* client.rs:267-269: jitter * 500 ms * 2^n, from 0 up, never capped.
Sleeps ==
    IF retry_wrapper = "deadline" THEN 1..RETRY_CAP ELSE 0..RETRY_DEADLINE

RetryInit ==
    /\ retry_wrapper \in {"client", "deadline"}
    /\ should_retry \in (IF retry_wrapper = "client"
                         THEN {"condition"}
                         ELSE {"condition", "always", "never"})
    /\ retry_pc = "attempt"
    /\ retry_attempts = 0
    /\ retry_last = <<>>
    /\ retry_result = "none"
    /\ retry_elapsed = 0
    /\ retry_sleep = 0

AttemptCompletes(o) ==
    /\ retry_pc = "attempt"
    /\ retry_attempts' = Min(retry_attempts + 1, MaxAttempts)
    /\ retry_last' = <<o>>
    /\ UNCHANGED <<retry_wrapper, should_retry, retry_elapsed, streamVars, mainAll, sessionVars, pureVars>>

\* client.rs:295 / retry.rs:22-24
AttemptOk ==
    /\ AttemptCompletes(Success)
    /\ retry_pc' = "returned"
    /\ retry_result' = "Ok"
    /\ UNCHANGED retry_sleep

\* client.rs:295 with condition true / retry.rs:25-28.  Under the timeout
\* of retry.rs:19 a sleep begun at the deadline ends the call at once.
AttemptRetryable ==
    \E e \in Failures :
        /\ ShouldRetry(e)
        /\ AttemptCompletes(e)
        /\ IF DeadlinePassed
           THEN /\ retry_pc' = "returned"
                /\ retry_result' = "deadline exceeded"
                /\ UNCHANGED retry_sleep
           ELSE /\ retry_pc' = "sleep"
                /\ retry_result' = "none"
                /\ retry_sleep' \in Sleeps

\* client.rs:295 with condition false / retry.rs:29-31
AttemptFatal ==
    \E e \in Failures :
        /\ ~ShouldRetry(e)
        /\ AttemptCompletes(e)
        /\ retry_pc' = "returned"
        /\ retry_result' = IF retry_wrapper = "client" THEN "Err" ELSE "failed"
        /\ UNCHANGED retry_sleep

\* Time passes while an attempt or a sleep is pending.
Tick ==
    /\ retry_pc # "returned"
    /\ ~DeadlinePassed
    /\ retry_elapsed' = Min(retry_elapsed + 1, RETRY_DEADLINE)
    /\ retry_sleep' = IF retry_pc = "sleep" /\ retry_sleep > 0
                      THEN retry_sleep - 1 ELSE retry_sleep
    /\ \/ retry_elapsed < RETRY_DEADLINE
       \/ retry_pc = "sleep" /\ retry_sleep > 0
    /\ UNCHANGED <<retry_wrapper, should_retry, retry_pc, retry_attempts, retry_last,
                   retry_result, streamVars, mainAll, sessionVars, pureVars>>

\* The sleep is over: the next attempt starts (retry.rs:20-21).
SleepDone ==
    /\ retry_pc = "sleep"
    /\ retry_sleep = 0
    /\ ~DeadlinePassed
    /\ retry_pc' = "attempt"
    /\ UNCHANGED <<retry_wrapper, should_retry, retry_attempts, retry_last, retry_result,
                   retry_elapsed, retry_sleep, streamVars, mainAll, sessionVars, pureVars>>

\* retry.rs:19,37-38: the timeout elapses with the loop still pending.
DeadlineFires ==
    /\ retry_pc # "returned"
    /\ DeadlinePassed
    /\ retry_pc' = "returned"
    /\ retry_result' = "deadline exceeded"
    /\ UNCHANGED <<retry_wrapper, should_retry, retry_attempts, retry_last,
                   retry_elapsed, retry_sleep, streamVars, mainAll, sessionVars, pureVars>>

RetryNext ==
    \/ AttemptOk
    \/ AttemptRetryable
    \/ AttemptFatal
    \/ Tick
    \/ SleepDone
    \/ DeadlineFires

\* The failures the retry policy names: connect failure, timeout, 408, 429
\* and every 5xx.
NamedRetryable(e) ==
    \/ e.connect
    \/ e.timeout
    \/ e.status \in {408, 429}
    \/ e.status \in 500..599

\* C12: with the HTTP client's wrapper a failed attempt is followed by a
\* sleep and another attempt exactly if the failure is a connect failure, a
\* timeout, a 408, a 429 or a 5xx; any other failure ends the call with
\* that error, a success ends it with Ok, and an ended call makes no
\* further attempt.
C12_RetriedIffRetryable ==
    [][ retry_wrapper = "client" =>
          /\ (retry_pc = "attempt" /\ retry_last' # retry_last) =>
                LET e == retry_last'[1] IN
                  /\ e.ok => retry_pc' = "returned" /\ retry_result' = "Ok"
                  /\ (~e.ok /\ NamedRetryable(e)) =>
                        retry_pc' = "sleep" /\ retry_result' = "none"
                  /\ (~e.ok /\ ~NamedRetryable(e)) =>
                        retry_pc' = "returned" /\ retry_result' = "Err"
          /\ retry_pc = "attempt" => (retry_pc' # "attempt" => retry_last' # <<>>)
          /\ retry_pc = "sleep" => retry_pc' \in {"sleep", "attempt"}
          /\ retry_pc = "returned" => UNCHANGED retryVars ]_vars

\* A 429 was retried and the next attempt then succeeded.
C12_Witness ==
    /\ retry_wrapper = "client"
    /\ retry_pc = "returned"
    /\ retry_result = "Ok"
    /\ retry_attempts = 2

\* C13: a retried call gives up under its overall deadline: once the
\* deadline has passed no sleep is followed by a further attempt and no
\* attempt by a further sleep, so the call is not retried forever.
C13_GivesUpAtDeadline ==
    [][ (retry_elapsed >= RETRY_DEADLINE /\ retry_pc # "returned") =>
            retry_pc' \in {retry_pc, "returned"} ]_vars

(***************************************************************************)
(* Session::login (session.rs:51-110), GroupKeys (session.rs:140-174) and  *)
(* get_mail_membership (folders.rs:107-130).                               *)
(***************************************************************************)
GroupIds == {"g1", "g2"}

UserGroupId == "user"

\* proto/enums.rs:38-51, two of the twelve types.
GroupTypes == {"Mail", "Contact"}

\* OptionalEncryptedKey: absent, a wrapped key whose MAC does not verify, or
\* a key wrapped with the user group key, named by the key it unwraps to.
EncKeys == {"none", "badmac", "k1", "k2"}

UserMemberships ==
    [group_type : GroupTypes, group : GroupIds, sym_enc_g_key : EncKeys]

SeqsUpTo(S, n) == UNION {[1..k -> S] : k \in 0..n}

UserResponses ==
    [memberships : SeqsUpTo(UserMemberships, MaxMemberships),
     user_group : [group_type : {"User"}, group : {UserGroupId},
                   sym_enc_g_key : {"none", "badmac", "k0"}]]

\* encryption.rs:19-42: the key a wrapped key unwraps to, which depends on
\* the wrapped bytes and on the outer key they are decrypted with, or the
\* error of decrypt.
decrypt_key(outer, enc) ==
    IF enc = "badmac"
    THEN [ok |-> FALSE, key |-> "HMAC verification"]
    ELSE [ok |-> TRUE, key |-> enc \o "/" \o outer]

\* session.rs:158-165: the inserts of the loop, a later one replacing an
\* earlier one for the same group.
RECURSIVE InsertMemberships(_, _, _)
InsertMemberships(keys, user_key, ms) ==
    IF ms = <<>>
    THEN [ok |-> TRUE, keys |-> keys]
    ELSE LET group == Head(ms) IN
         IF group.sym_enc_g_key = "none"
         THEN InsertMemberships(keys, user_key, Tail(ms))
         ELSE LET k == decrypt_key(user_key, group.sym_enc_g_key) IN
              IF ~k.ok
              THEN [ok |-> FALSE, keys |-> keys]
              ELSE InsertMemberships(
                       [g \in DOMAIN keys \cup {group.group} |->
                            IF g = group.group THEN k.key ELSE keys[g]],
                       user_key, Tail(ms))

\* A table whose membership keys are unwrapped under the passphrase key.
try_newUnderPassphraseKey(pk, ud) ==
    IF ud.user_group.sym_enc_g_key = "none"
    THEN [ok |-> FALSE, keys |-> <<>>]
    ELSE LET user_key == decrypt_key(pk, ud.user_group.sym_enc_g_key) IN
         IF ~user_key.ok
         THEN [ok |-> FALSE, keys |-> <<>>]
         ELSE InsertMemberships([g \in {ud.user_group.group} |-> user_key.key],
                                pk, ud.memberships)

\* session.rs:146-168
try_new(pk, ud) ==
    IF ud.user_group.sym_enc_g_key = "none"
    THEN [ok |-> FALSE, keys |-> <<>>]
    ELSE LET user_key == decrypt_key(pk, ud.user_group.sym_enc_g_key) IN
         IF ~user_key.ok
         THEN [ok |-> FALSE, keys |-> <<>>]
         ELSE InsertMemberships([g \in {ud.user_group.group} |-> user_key.key],
                                user_key.key, ud.memberships)

\* A get that takes the entry out of the table.
KeysAfterGetRemoves(keys, group) == [g \in DOMAIN keys \ {group} |-> keys[g]]

\* session.rs:170-173: get borrows the table immutably.
KeysAfterGet(keys, group) == keys

\* session.rs:170-173
get(keys, group) ==
    IF group \in DOMAIN keys
    THEN [ok |-> TRUE, key |-> keys[group]]
    ELSE [ok |-> FALSE, key |-> "group key not found"]

\* A login that goes on whatever challenges the server poses.
AfterSessionResponseIgnoringChallenges(n) == "user"

\* session.rs:89-91
AfterSessionResponse(n) == IF n # 0 THEN "returned" ELSE "user"

LoginInit ==
    /\ login_pc = "salt"
    /\ login_requests = <<>>
    /\ challenges = 0
    /\ user_data = <<>>
    /\ login_result = "none"
    /\ group_keys = <<>>
    /\ got = [g \in GroupIds \cup {UserGroupId} |-> {}]
    /\ mail_membership = <<>>
    /\ access_token = <<>>
    /\ session_logout = "none"

LoginUnchanged == UNCHANGED <<streamVars, mainAll, retryVars, pureVars>>

\* session.rs:54-65
SaltOk ==
    /\ login_pc = "salt"
    /\ login_requests' = Append(login_requests, "saltservice")
    /\ login_pc' = "session"
    /\ UNCHANGED <<challenges, user_data, login_result, group_keys, got, mail_membership,
                   access_token, session_logout>>
    /\ LoginUnchanged

\* A request of login fails, or derive_passkey does (session.rs:61,64,83,99).
LoginRequestFails ==
    /\ login_pc \in {"salt", "session", "user"}
    /\ login_requests' = Append(login_requests,
           CASE login_pc = "salt" -> "saltservice"
             [] login_pc = "session" -> "sessionservice"
             [] login_pc = "user" -> "user")
    /\ login_pc' = "returned"
    /\ login_result' = CASE login_pc = "salt" -> "get salt"
                         [] login_pc = "session" -> "get session"
                         [] login_pc = "user" -> "get user"
    /\ UNCHANGED <<challenges, user_data, group_keys, got, mail_membership,
                   access_token, session_logout>>
    /\ LoginUnchanged

\* Lengths, in characters, of the accessToken strings a sessionservice
\* response carries in the model: the empty string, a string of a length no
\* base64 text has, and the strings that decode to one byte less than
\* GENERATE_ID_BYTES_LENGTH and to exactly that many bytes.
AccessTokenChars == {0, 1, GENERATE_ID_BYTES_LENGTH + 2, GENERATE_ID_BYTES_LENGTH + 3}

\* proto/binary.rs:10-13 and 93-108: Base64Url::try_new pads the text to a
\* multiple of four characters, which no text of length 4k+1 can be, and
\* decodes it; the result is the number of bytes decoded from n characters.
Base64Url_try_new(n) ==
    CASE n % 4 = 0 -> [ok |-> TRUE, len |-> 3 * (n \div 4)]
      [] n % 4 = 2 -> [ok |-> TRUE, len |-> 3 * (n \div 4) + 1]
      [] n % 4 = 3 -> [ok |-> TRUE, len |-> 3 * (n \div 4) + 2]
      [] n % 4 = 1 -> [ok |-> FALSE, len |-> 0]

\* session.rs:178-182: the slice access_token[GENERATE_ID_BYTES_LENGTH..]
\* exists only for a token of at least that many bytes; the index panics for
\* a shorter one.
session_element_id(len) == [panics |-> len < GENERATE_ID_BYTES_LENGTH]

\* session.rs:67-91
SessionResponse ==
    /\ login_pc = "session"
    /\ \E n \in 0..MaxChallenges, chars \in AccessTokenChars :
        LET token == Base64Url_try_new(chars) IN
        /\ login_requests' = Append(login_requests, "sessionservice")
        /\ IF ~token.ok
           THEN /\ login_pc' = "returned"
                /\ login_result' = "get session"
                /\ UNCHANGED <<challenges, access_token>>
           ELSE /\ challenges' = n
                /\ access_token' = <<token.len>>
                /\ login_pc' = AfterSessionResponse(n)
                /\ login_result' = IF login_pc' = "returned"
                                   THEN "not implemented: challenges"
                                   ELSE login_result
        /\ UNCHANGED <<user_data, group_keys, got, mail_membership, session_logout>>
        /\ LoginUnchanged

\* session.rs:93-109
UserResponse ==
    /\ login_pc = "user"
    /\ \E ud \in UserResponses :
        /\ login_requests' = Append(login_requests, "user")
        /\ user_data' = <<ud>>
        /\ login_pc' = "returned"
        /\ LET keys == try_new("pk", ud) IN
             IF keys.ok
             THEN /\ group_keys' = <<keys.keys>>
                  /\ login_result' = "Ok"
             ELSE /\ group_keys' = <<>>
                  /\ login_result' = "set up group keys"
        /\ UNCHANGED <<challenges, got, mail_membership, access_token, session_logout>>
        /\ LoginUnchanged

LoggedIn == login_pc = "returned" /\ login_result = "Ok"

\* The session is in use: login has returned it and logout has not yet
\* consumed it (session.rs:112 takes self by value).
InSession == LoggedIn /\ session_logout = "none"

\* folders.rs:83, mails.rs:80, mails.rs:240: a decode or a download looks a
\* group key up, in any order and any number of times.
GroupKeysGet ==
    /\ InSession
    /\ \E group \in GroupIds \cup {UserGroupId} :
        /\ got' = [got EXCEPT ![group] = @ \cup {get(group_keys[1], group)}]
        /\ group_keys' = <<KeysAfterGet(group_keys[1], group)>>
        /\ UNCHANGED <<login_pc, login_requests, challenges, user_data, login_result,
                       mail_membership, access_token, session_logout>>
        /\ LoginUnchanged

NoMembership == [group_type |-> "none", group |-> "none", sym_enc_g_key |-> "none"]

\* folders.rs:110-121: the type of the first membership whose type an
\* earlier membership has, "none" if there is no such membership.
RECURSIVE FirstDuplicateType(_, _)
FirstDuplicateType(ms, seen) ==
    IF ms = <<>>
    THEN "none"
    ELSE IF Head(ms).group_type \in seen
         THEN Head(ms).group_type
         ELSE FirstDuplicateType(Tail(ms), seen \cup {Head(ms).group_type})

\* folders.rs:107-130
get_mail_membership(ud) ==
    LET ms == ud.memberships IN
    IF FirstDuplicateType(ms, {}) # "none"
    THEN [ok |-> FALSE, err |-> "duplicate group membership for type",
          membership |-> NoMembership]
    ELSE IF \E i \in DOMAIN ms : ms[i].group_type = "Mail"
         THEN [ok |-> TRUE, err |-> "",
               membership |-> ms[CHOOSE i \in DOMAIN ms : ms[i].group_type = "Mail"]]
         ELSE [ok |-> FALSE, err |-> "no mail group found", membership |-> NoMembership]

\* folders.rs:33: Folder::list picks the mail group of the session.
GetMailMembership ==
    /\ InSession
    /\ mail_membership = <<>>
    /\ mail_membership' = <<get_mail_membership(user_data[1])>>
    /\ UNCHANGED <<login_pc, login_requests, challenges, user_data, login_result,
                   group_keys, got, access_token, session_logout>>
    /\ LoginUnchanged

\* A main that logs out of whatever session the server has opened.
MayLogoutOnceSessionOpened == login_pc = "returned" /\ access_token # <<>>

\* main.rs:113-121: the ? on the result of login leaves main before the
\* call of logout, which only a returned session reaches.
MayLogout == LoggedIn

\* session.rs:112-137: logout computes the element id of the session, then
\* sends DELETE session/<list>/<element>, which succeeds or fails.
Logout ==
    /\ MayLogout
    /\ session_logout = "none"
    /\ IF session_element_id(access_token[1]).panics
       THEN /\ session_logout' = "panicked"
            /\ UNCHANGED login_requests
       ELSE /\ login_requests' = Append(login_requests, "session DELETE")
            /\ \E r \in {"Ok", "session deletion"} : session_logout' = r
    /\ UNCHANGED <<login_pc, challenges, user_data, login_result, group_keys, got,
                   mail_membership, access_token>>
    /\ LoginUnchanged

SessionNext ==
    \/ SaltOk
    \/ LoginRequestFails
    \/ SessionResponse
    \/ UserResponse
    \/ GroupKeysGet
    \/ GetMailMembership
    \/ Logout

Requested(path) == \E i \in DOMAIN login_requests : login_requests[i] = path

\* C14: a sessionservice response with a non-empty challenges list makes
\* login return the error `not implemented: challenges`: no session is
\* returned, sys/user is never requested and no group-key table is built.
C14_ChallengesFailLogin ==
    challenges # 0 =>
        /\ login_pc = "returned"
        /\ login_result = "not implemented: challenges"
        /\ ~Requested("user")
        /\ user_data = <<>>
        /\ group_keys = <<>>
        /\ \A g \in DOMAIN got : got[g] = {}

C14_Witness ==
    /\ challenges = MaxChallenges
    /\ login_pc = "returned"
    /\ login_requests = <<"saltservice", "sessionservice">>

\* C15: the group-key table changes in one step only, the one in which
\* login builds it and returns the session; no lookup afterwards adds,
\* removes or replaces an entry, and every lookup of a group id returns
\* the same result throughout the session.
C15_GroupKeysImmutable ==
    [][ /\ group_keys' # group_keys =>
              login_pc = "user" /\ group_keys = <<>> /\ login_result' = "Ok"
        /\ \A g \in DOMAIN got : Cardinality(got'[g]) <= 1 ]_vars

\* Every group has been looked up after login, one found and one not.
C15_Witness ==
    /\ LoggedIn
    /\ \A g \in DOMAIN got : got[g] # {}
    /\ \E g \in DOMAIN got : \E r \in got[g] : r.ok
    /\ \E g \in DOMAIN got : \E r \in got[g] : ~r.ok
    /\ mail_membership # <<>>

MailMemberships(ms) == {i \in DOMAIN ms : ms[i].group_type = "Mail"}

\* C19: get_mail_membership returns the Mail membership of every list that
\* holds exactly one, whatever else the list holds, and fails for a list
\* that holds none or more than one.
C19_SingleMailMembership ==
    mail_membership # <<>> =>
        LET ms == user_data[1].memberships
            r == mail_membership[1]
        IN IF Cardinality(MailMemberships(ms)) = 1
           THEN r.ok /\ \E i \in MailMemberships(ms) : r.membership = ms[i]
           ELSE ~r.ok

\* C21: an empty access token is a protocol error: a login whose
\* sessionservice response carries one fails, and logout never computes the
\* element id of a token shorter than GENERATE_ID_BYTES_LENGTH bytes, so it
\* never panics on the slice.
C21_EmptyTokenFailsLogin ==
    /\ (access_token = <<0>> /\ login_pc = "returned") => login_result # "Ok"
    /\ session_logout # "panicked"

\* The membership entries of ms that carry a wrapped key.
Keyed(ms) == {i \in DOMAIN ms : ms[i].sym_enc_g_key # "none"}

\* The last entry of ms that carries a wrapped key for group g.
LastKeyed(ms, g) ==
    CHOOSE i \in Keyed(ms) :
        ms[i].group = g /\ \A j \in Keyed(ms) : ms[j].group = g => j <= i

\* C26: after a successful login the table holds exactly the user group id,
\* with the user group key unwrapped under the passphrase key, and the group
\* ids of the memberships that carry a wrapped key, each unwrapped under the
\* user group key; a group whose memberships carry no wrapped key has no
\* entry, so a lookup of it fails with `group key not found`; login fails
\* when the wrapped key of the user group is empty.
C26_TableHoldsUserGroupAndKeyedMemberships ==
    user_data # <<>> =>
        LET ud == user_data[1]
            ms == ud.memberships
            user_key == ud.user_group.sym_enc_g_key \o "/pk"
        IN /\ ud.user_group.sym_enc_g_key = "none" =>
                  login_result = "set up group keys" /\ group_keys = <<>>
           /\ LoggedIn =>
                /\ DOMAIN group_keys[1] =
                       {ud.user_group.group} \cup {ms[i].group : i \in Keyed(ms)}
                /\ group_keys[1][ud.user_group.group] = user_key
                /\ \A i \in Keyed(ms) :
                       group_keys[1][ms[i].group] =
                           ms[LastKeyed(ms, ms[i].group)].sym_enc_g_key \o "/" \o user_key
                /\ \A g \in GroupIds :
                       (\A i \in DOMAIN ms : ms[i].group = g => i \notin Keyed(ms)) =>
                           \A r \in got[g] : ~r.ok /\ r.key = "group key not found"

\* A login has returned a table from a user response in which one group's
\* only membership carries no key and another's carries one, and both have
\* been looked up.
C26_Witness ==
    /\ LoggedIn
    /\ user_data[1].memberships =
           <<[group_type |-> "Mail", group |-> "g1", sym_enc_g_key |-> "none"],
             [group_type |-> "Contact", group |-> "g2", sym_enc_g_key |-> "k2"]>>
    /\ got["g1"] # {}
    /\ got["g2"] # {}

\* C28: when login fails after the sessionservice POST has succeeded (on
\* challenges, on a failing sys/user request or on a failing group-key
\* unwrap), the process ends without ever issuing a session DELETE.
C28_FailedLoginNeverDeletesSession ==
    (access_token # <<>> /\ login_pc = "returned" /\ login_result # "Ok") =>
        /\ ~Requested("session DELETE")
        /\ session_logout = "none"
        /\ ~ENABLED Logout

\* The server has opened a session and the group keys could not be set up.
C28_Witness ==
    /\ access_token # <<>>
    /\ Requested("user")
    /\ login_result = "set up group keys"

(***************************************************************************)
(* decrypt and decrypt_value (crypto/encryption.rs:44-142).  SHA-2, HMAC   *)
(* and AES are symbolic: a derived key is the key it was derived from and  *)
(* the half of the hash taken, a MAC byte is the position in the tag of    *)
(* the key and the payload it authenticates, and the AES call is the       *)
(* record of its arguments.                                                *)
(***************************************************************************)
\* Key::Aes128 | Key::Aes256 and, for a subkey, the half of the hash taken.
Keys == [kind : {"Aes128", "Aes256"}, id : {"k1", "k2"}, derived : {<<>>}]

\* encryption.rs:117-142
Subkeys(k) ==
    [encryption_key |-> [k EXCEPT !.derived = Append(@, "first half")],
     mac_key        |-> [k EXCEPT !.derived = Append(@, "second half")]]

PlainBytes == {[b |-> n, mac |-> <<>>] : n \in 0..1}

\* A MAC that does not depend on the payload.
HmacOfKeyOnly(mac_key, payload) ==
    [i \in 1..MAC_LEN |-> [b |-> i, mac |-> <<mac_key, <<>>>>]]

\* HmacSha256 of payload under mac_key: MAC_LEN bytes.
Hmac(mac_key, payload) ==
    [i \in 1..MAC_LEN |-> [b |-> i, mac |-> <<mac_key, payload>>]]

\* &value[from..to] of Rust: bytes from+1 .. to of the sequence.
Slice(v, from, to) == SubSeq(v, from + 1, to)

NoCall == <<>>

\* The cbc decryptors of encryption.rs:84-108: the call made and whether
\* the length of the ciphertext allows it.
Aes(k, iv, v, padding) ==
    [err |-> IF Len(v) % BLOCK_LEN # 0 \/ (padding /\ v = <<>>)
             THEN "AES decryption" ELSE "",
     mac |-> NoCall,
     aes |-> <<[key |-> k, iv |-> iv, value |-> v, padding |-> padding]>>]

\* A return before the cipher is called; err is "" for Ok.
WithoutAes(msg, mac) == [err |-> msg, mac |-> mac, aes |-> NoCall]

\* encryption.rs:75-109
DecryptAfterMac(k, v, padding, mac) ==
    IF Len(v) < IV_LEN
    THEN WithoutAes("IV missing", mac)
    ELSE [Aes(k, Slice(v, 0, IV_LEN), Slice(v, IV_LEN, Len(v)), padding)
            EXCEPT !.mac = mac]

\* A parity test that takes every ciphertext for an unauthenticated one.
UseMacNever(v) == FALSE

\* encryption.rs:53
UseMac(v) == Len(v) % 2 = 1

\* A payload that begins at the marker byte.
PayloadFromMarker(v) == Slice(v, 0, Len(v) - MAC_LEN)

\* encryption.rs:59
Payload(v) == Slice(v, 1, Len(v) - MAC_LEN)

\* encryption.rs:52-110
decrypt(k, v, padding) ==
    IF UseMac(v)
    THEN IF Len(v) < MAC_LEN + 1
         THEN WithoutAes("mac missing", NoCall)
         ELSE LET payload == Payload(v)
                  mac == Slice(v, Len(v) - MAC_LEN, Len(v))
                  subkeys == Subkeys(k)
                  check == <<[key |-> subkeys.mac_key, payload |-> payload, tag |-> mac]>>
              IN IF mac # Hmac(subkeys.mac_key, payload)
                 THEN WithoutAes("HMAC verification", check)
                 ELSE DecryptAfterMac(subkeys.encryption_key, payload, padding, check)
    ELSE DecryptAfterMac(k, v, padding, NoCall)

\* encryption.rs:44-50
decrypt_value(k, v) ==
    IF v = <<>> THEN WithoutAes("", NoCall) ELSE decrypt(k, v, TRUE)

\* Longest payload enumerated: an IV and one block.
MaxPayloadLen == IV_LEN + BLOCK_LEN

\* Ciphertexts as a sender makes them: marker byte, payload, MAC of the
\* payload under the MAC subkey of the sender's key.
Authenticated ==
    {<<marker>> \o payload \o Hmac(Subkeys(k).mac_key, payload) :
        marker \in PlainBytes,
        payload \in SeqsUpTo(PlainBytes, MaxPayloadLen),
        k \in Keys}

\* Any bytes at all, up to the length of the longest ciphertext above.
Arbitrary == SeqsUpTo(PlainBytes, 1 + MaxPayloadLen + MAC_LEN)

\* v with the byte at position i (from 1) replaced by byte.
Changed(v, i, byte) == [v EXCEPT ![i] = byte]

DecryptInit ==
    /\ encryption_key \in Keys
    /\ \/ /\ original \in Arbitrary
          /\ changed_at = 0
          /\ value = original
       \/ /\ original \in Authenticated
          /\ changed_at \in 0..Len(original)
          /\ IF changed_at = 0
             THEN value = original
             ELSE \E byte \in PlainBytes \ {original[changed_at]} :
                     value = Changed(original, changed_at, byte)
    /\ called = "none"
    /\ decrypted = WithoutAes("", NoCall)

DecryptUnchanged ==
    UNCHANGED <<encryption_key, value, original, changed_at, streamVars, mainAll,
                retryVars, sessionVars, decodeVars, emlVars, lateVars>>

\* encryption.rs:44-50, as mails.rs and folders.rs call it on field values.
DecryptValue ==
    /\ called = "none"
    /\ called' = "decrypt_value"
    /\ decrypted' = decrypt_value(encryption_key, value)
    /\ DecryptUnchanged

\* encryption.rs:32: decrypt_key calls decrypt without padding.
DecryptNoPadding ==
    /\ called = "none"
    /\ called' = "decrypt"
    /\ decrypted' = decrypt(encryption_key, value, FALSE)
    /\ DecryptUnchanged

DecryptNext ==
    \/ DecryptValue
    \/ DecryptNoPadding

\* An authenticated (odd-length) ciphertext decrypt_value accepts.
Accepted(v) == Len(v) % 2 = 1 /\ decrypt_value(encryption_key, v).err = ""

\* C16 as stated: changing any single byte of an accepted authenticated
\* ciphertext, the first byte included, makes decrypt_value fail with
\* `HMAC verification`.
C16_AnyByteChangeFailsHmac ==
    (called = "decrypt_value" /\ changed_at # 0 /\ Accepted(original)) =>
        decrypted.err = "HMAC verification"

\* C16 amended: changing any single byte from the second byte to the last
\* byte of the MAC makes decrypt_value fail with `HMAC verification`, before
\* the cipher is called; changing the first byte, the marker, changes
\* nothing: the ciphertext is accepted with the result of the original.
C16_ByteChangeAfterMarkerFailsHmac ==
    (called = "decrypt_value" /\ changed_at # 0 /\ Accepted(original)) =>
        IF changed_at = 1
        THEN decrypted = decrypt_value(encryption_key, original)
        ELSE decrypted.err = "HMAC verification" /\ decrypted.aes = NoCall

\* The last byte of the MAC of an accepted ciphertext with a block of data
\* was changed.
C16_Witness ==
    /\ called = "decrypt_value"
    /\ Accepted(original)
    /\ Len(original) = 1 + MaxPayloadLen + MAC_LEN
    /\ changed_at = Len(original)
    /\ decrypted.err = "HMAC verification"

\* C17: for an input of odd length decrypt verifies the HMAC of the bytes
\* from the second to the one before the last MAC_LEN against the last
\* MAC_LEN bytes under the derived MAC subkey, calls the cipher only if it
\* verifies, and then with the derived encryption subkey; for an input of
\* even length it checks no MAC and calls the cipher with the outer key on
\* the whole input.  The first IV_LEN bytes of what goes to the cipher are
\* the IV.
C17_ParityDecidesAuthentication ==
    (called # "none" /\ value # <<>>) =>
        LET n == Len(value)
            odd == n % 2 = 1
            payload == IF odd THEN SubSeq(value, 2, n - MAC_LEN) ELSE value
            tag == SubSeq(value, n - MAC_LEN + 1, n)
            outer == encryption_key
        IN /\ (odd /\ n >= MAC_LEN + 1) =>
                /\ decrypted.mac = <<[key |-> Subkeys(outer).mac_key,
                                      payload |-> payload, tag |-> tag]>>
                /\ decrypted.aes # NoCall =>
                      /\ tag = Hmac(Subkeys(outer).mac_key, payload)
                      /\ decrypted.aes[1].key = Subkeys(outer).encryption_key
                /\ tag # Hmac(Subkeys(outer).mac_key, payload) =>
                      decrypted.err = "HMAC verification"
           /\ ~odd =>
                /\ decrypted.mac = NoCall
                /\ decrypted.aes # NoCall => decrypted.aes[1].key = outer
           /\ decrypted.aes # NoCall <=>
                (Len(payload) >= IV_LEN
                    /\ (odd => n >= MAC_LEN + 1 /\ decrypted.err # "HMAC verification"))
           /\ decrypted.aes # NoCall =>
                /\ decrypted.aes[1].iv = SubSeq(payload, 1, IV_LEN)
                /\ decrypted.aes[1].value = SubSeq(payload, IV_LEN + 1, Len(payload))
                /\ decrypted.aes[1].padding = (called = "decrypt_value")

\* An authenticated key-sized input was verified and handed to the cipher
\* without padding.
C17_Witness ==
    /\ called = "decrypt"
    /\ Len(value) = 1 + MaxPayloadLen + MAC_LEN
    /\ decrypted.mac # NoCall
    /\ decrypted.aes # NoCall
    /\ decrypted.err = ""

(***************************************************************************)
(* Mail::decode (mails.rs:78-115).                                         *)
(***************************************************************************)
\* [archive_id, blob_id] pairs.
IdTuples == {<<"archive1", "blob1">>, <<"archive2", "blob2">>}

\* An Option: <<>> for None, <<x>> for Some(x).
Option(S) == {<<>>} \cup {<<x>> : x \in S}

\* The records of a mail listing.  subject and sender stand for what
\* decrypt_value and Address::decode make of the encrypted fields.
MailReponses ==
    [owner_group : GroupIds \cup {"unknown group"},
     owner_enc_session_key : {"badmac", "k1"},
     subject : {"Hello", "undecryptable", "not UTF-8"},
     sender : {"a@example.com", "undecryptable"},
     mail_details : Option(IdTuples),
     mail_details_draft : Option(IdTuples)]

\* The group keys of the session the listing runs in.
DecodeGroupKeys == [g \in GroupIds |-> "k1"]

NoDetails == <<"", "">>

\* A match that takes mailDetails when both are set.
MatchDetailsPreferringFinal(mail_details, mail_details_draft) ==
    IF mail_details # <<>>
    THEN [err |-> "", ids |-> mail_details[1], is_draft |-> FALSE]
    ELSE IF mail_details_draft # <<>>
         THEN [err |-> "", ids |-> mail_details_draft[1], is_draft |-> TRUE]
         ELSE [err |-> "mail has neither mailDetails nor mailDetailsDraft",
               ids |-> NoDetails, is_draft |-> FALSE]

\* mails.rs:92-101 (the messages without their backticks)
MatchDetails(mail_details, mail_details_draft) ==
    CASE mail_details # <<>> /\ mail_details_draft # <<>> ->
            [err |-> "mail as both mailDetails and mailDetailsDraft",
             ids |-> NoDetails, is_draft |-> FALSE]
      [] mail_details # <<>> /\ mail_details_draft = <<>> ->
            [err |-> "", ids |-> mail_details[1], is_draft |-> FALSE]
      [] mail_details = <<>> /\ mail_details_draft # <<>> ->
            [err |-> "", ids |-> mail_details_draft[1], is_draft |-> TRUE]
      [] mail_details = <<>> /\ mail_details_draft = <<>> ->
            [err |-> "mail has neither mailDetails nor mailDetailsDraft",
             ids |-> NoDetails, is_draft |-> FALSE]

DecodeErr(msg) == [err |-> msg, mail |-> <<>>]

\* mails.rs:78-115
decode(r, keys) ==
    LET group_key == get(keys, r.owner_group) IN
    IF ~group_key.ok THEN DecodeErr("getting owner group key") ELSE
    LET session_key == decrypt_key(group_key.key, r.owner_enc_session_key) IN
    IF ~session_key.ok THEN DecodeErr("decrypting session key") ELSE
    IF r.subject = "undecryptable" THEN DecodeErr("decrypt subject") ELSE
    IF r.subject = "not UTF-8" THEN DecodeErr("decode string") ELSE
    IF r.sender = "undecryptable" THEN DecodeErr("decode sender") ELSE
    LET details == MatchDetails(r.mail_details, r.mail_details_draft) IN
    IF details.err # "" THEN DecodeErr(details.err) ELSE
    [err |-> "",
     mail |-> <<[archive_id |-> details.ids[1],
                 blob_id |-> details.ids[2],
                 is_draft |-> details.is_draft,
                 session_key |-> session_key.key,
                 subject |-> r.subject,
                 sender |-> r.sender]>>]

DecodeInit ==
    /\ resp \in Option(MailReponses) \ {<<>>}
    /\ decoded = <<>>

\* mails.rs:72: the listing decodes a record.
Decode ==
    /\ resp # <<>>
    /\ decoded = <<>>
    /\ decoded' = <<decode(resp[1], DecodeGroupKeys)>>
    /\ UNCHANGED <<resp, streamVars, mainAll, retryVars, sessionVars, decryptVars, emlVars,
                   lateVars>>

DecodeNext == Decode

\* C18: a Mail comes out of decode only for a record with exactly one of
\* mailDetails and mailDetailsDraft set, with the ids of that field and
\* with is_draft true exactly if the field is mailDetailsDraft; a record
\* with both or with neither makes decode fail and yields no Mail.
C18_ExactlyOneDetails ==
    decoded # <<>> =>
        LET md == resp[1].mail_details
            mdd == resp[1].mail_details_draft
            r == decoded[1]
        IN /\ r.err = "" <=> r.mail # <<>>
           /\ r.mail # <<>> =>
                /\ (md = <<>>) # (mdd = <<>>)
                /\ r.mail[1].is_draft = (mdd # <<>>)
                /\ <<r.mail[1].archive_id, r.mail[1].blob_id>> =
                      (IF mdd # <<>> THEN mdd[1] ELSE md[1])
           /\ (md = <<>>) = (mdd = <<>>) => r.err # "" /\ r.mail = <<>>

\* A draft was decoded.
C18_Witness ==
    /\ decoded # <<>>
    /\ decoded[1].mail # <<>>
    /\ decoded[1].mail[1].is_draft
    /\ resp[1].mail_details = <<>>

(***************************************************************************)
(* The header part of emit_eml (eml.rs:16-33) with split_header_lines and  *)
(* remove_content_type (eml.rs:127-160).  A string is a sequence of        *)
(* tokens: header names, ":", " ", a tab, a value and the line endings.    *)
(***************************************************************************)
LineEndings == {"\n", "\r\n"}

\* The lines a server's header block is made of: Content-Type headers in
\* two spellings and without a space after the colon, two other headers, a
\* continuation line and the empty line.
ServerLines ==
    { <<"Content-Type", ":", " ", "v">>,
      <<"content-type", ":", " ", "v">>,
      <<"Content-Type", ":", "v">>,
      <<"X-A", ":", " ", "v">>,
      <<"X-B", ":", " ", "v">>,
      <<"\t", "v">>,
      <<>> }

\* The lines joined by the line ending, with one more at the end if asked.
RECURSIVE Joined(_, _, _)
Joined(lines, ending, trailing) ==
    IF lines = <<>>
    THEN <<>>
    ELSE Head(lines)
            \o (IF Len(lines) > 1 \/ trailing THEN <<ending>> ELSE <<>>)
            \o Joined(Tail(lines), ending, trailing)

\* eml.rs:127-132: Regex::split at every \r?\n; the text after the last
\* line ending is the last element, also when it is empty.
RECURSIVE SplitAt(_, _)
SplitAt(str, line) ==
    IF str = <<>>
    THEN <<line>>
    ELSE IF Head(str) \in LineEndings
         THEN <<line>> \o SplitAt(Tail(str), <<>>)
         ELSE SplitAt(Tail(str), Append(line, Head(str)))

split_header_lines(str) == SplitAt(str, <<>>)

\* eml.rs:113-120: ^Content-Type: .* without regard to case.
content_type_re(line) ==
    /\ Len(line) >= 3
    /\ line[1] \in {"Content-Type", "content-type"}
    /\ line[2] = ":"
    /\ line[3] = " "

\* eml.rs:122-124: ^\s+.*
start_with_spaces_re(line) == Len(line) >= 1 /\ line[1] \in {" ", "\t"}

\* eml.rs:142-154: the loop, from its state after some lines to its end.
RECURSIVE RemoveLoop(_, _, _, _)
RemoveLoop(hs, out, in_content_type, found_content_type) ==
    IF hs = <<>>
    THEN [out |-> out, found_content_type |-> found_content_type]
    ELSE LET header == Head(hs) IN
         IF content_type_re(header)
         THEN RemoveLoop(Tail(hs), out, TRUE, TRUE)
         ELSE IF in_content_type /\ start_with_spaces_re(header)
              THEN RemoveLoop(Tail(hs), out, in_content_type, found_content_type)
              ELSE RemoveLoop(Tail(hs), Append(out, header), FALSE, found_content_type)

\* eml.rs:135-160
remove_content_type(hs) ==
    LET r == RemoveLoop(hs, <<>>, FALSE, FALSE) IN
    IF ~r.found_content_type
    THEN [err |-> "content type header not found", lines |-> <<>>]
    ELSE [err |-> "", lines |-> r.out]

\* eml.rs:70-92
synthesize_headers(mail) ==
    << <<"From", ":", " ", "v">>, <<"MIME-Version", ":", " ", "1.0">> >>
    \o (IF mail.subject_is_empty
        THEN << <<"Subject", ":", " ">> >>
        ELSE << <<"Subject", ":", " ", "v">> >>)
    \o (IF mail.bcc THEN << <<"BCC", ":", " ", "v">> >> ELSE <<>>)
    \o (IF mail.cc THEN << <<"CC", ":", " ", "v">> >> ELSE <<>>)
    \o (IF mail.to THEN << <<"To", ":", " ", "v">> >> ELSE <<>>)

\* eml.rs:20,29-32
MultipartLine ==
    <<"Content-Type", ":", " ",
      "multipart/related; boundary=----------79Bu5A16qPEYcVIZL@tutanota">>

\* eml.rs:16-33: the lines emit_eml has collected when the body part begins.
emit_eml(mail) ==
    IF mail.headers # <<>>
    THEN LET r == remove_content_type(split_header_lines(mail.headers[1])) IN
         IF r.err # ""
         THEN [err |-> "filter content type header", lines |-> <<>>]
         ELSE [err |-> "", lines |-> Append(r.lines, MultipartLine)]
    ELSE [err |-> "", lines |-> Append(synthesize_headers(mail), MultipartLine)]

EmlInit ==
    /\ \/ \E lines \in SeqsUpTo(ServerLines, MaxHeaderLines), ending \in LineEndings,
             trailing \in BOOLEAN :
             downloaded = <<[headers |-> <<Joined(lines, ending, trailing)>>,
                             subject_is_empty |-> FALSE,
                             bcc |-> FALSE, cc |-> FALSE, to |-> FALSE]>>
       \/ \E e, b, c, t \in BOOLEAN :
             downloaded = <<[headers |-> <<>>, subject_is_empty |-> e,
                             bcc |-> b, cc |-> c, to |-> t]>>
    /\ eml = <<>>

EmitEml ==
    /\ downloaded # <<>>
    /\ eml = <<>>
    /\ eml' = <<emit_eml(downloaded[1])>>
    /\ UNCHANGED <<downloaded, streamVars, mainAll, retryVars, sessionVars,
                   decryptVars, decodeVars, lateVars>>

EmlNext == EmitEml

\* A Content-Type header line: the name in any case, then the colon.
IsContentType(line) ==
    Len(line) >= 2 /\ line[1] \in {"Content-Type", "content-type"} /\ line[2] = ":"

IsContinuation(line) == Len(line) >= 1 /\ line[1] \in {" ", "\t"}

\* The lines without the Content-Type headers and their continuation lines.
RECURSIVE WithoutContentType(_, _)
WithoutContentType(lines, dropping) ==
    IF lines = <<>>
    THEN <<>>
    ELSE IF IsContentType(Head(lines))
         THEN WithoutContentType(Tail(lines), TRUE)
         ELSE IF dropping /\ IsContinuation(Head(lines))
              THEN WithoutContentType(Tail(lines), TRUE)
              ELSE <<Head(lines)>> \o WithoutContentType(Tail(lines), FALSE)

\* C20: for every mail with headers from the server emit_eml yields a
\* header block: the server's lines in their order without the Content-Type
\* headers and their continuation lines, then the multipart/related line,
\* which is the only Content-Type header of the block and has no blank
\* line before it.
C20_ContentTypeReplaced ==
    (eml # <<>> /\ downloaded[1].headers # <<>>) =>
        LET out == eml[1].lines
            delivered == split_header_lines(downloaded[1].headers[1])
        IN /\ eml[1].err = ""
           /\ out = Append(WithoutContentType(delivered, FALSE), MultipartLine)
           /\ \A i \in 1..Len(out) : IsContentType(out[i]) <=> i = Len(out)
           /\ \A i \in 1..Len(out) : out[i] # <<>>

(***************************************************************************)
(* run_webdriver (webdriver.rs:29-84) and MultiResultExt::combine          *)
(* (error.rs:41-73).  A result is the sequence of the errors it carries,   *)
(* each named by its context; Ok(()) carries none.                         *)
(***************************************************************************)
\* A step that has not been taken yet has no result.
NotRun == [done |-> FALSE, errors |-> <<>>]

OkResult == [done |-> TRUE, errors |-> <<>>]

ErrResult(context) == [done |-> TRUE, errors |-> <<context>>]

\* A combine that keeps the errors of its receiver only, as the match of
\* main.rs:123-127 does.
combineFirstErrorOnly(self, other) == IF self # <<>> THEN self ELSE other

\* error.rs:41-56 and 58-73: both impls collect the errors of self, then
\* the error of other.
combine(self, other) == self \o other

\* error.rs:9-15: a single error is returned as it is, several as one
\* MultiError that prints each of them (error.rs:18-31).
into_anyhow(errors) ==
    [done |-> TRUE, multi |-> Len(errors) # 1, errors |-> errors]

\* run_webdriver has not returned.
NotReturned == [done |-> FALSE, multi |-> FALSE, errors |-> <<>>]

\* The results run_webdriver returns: Ok(()), and one error of a set-up
\* step.
ReturnedOk == [done |-> TRUE, multi |-> FALSE, errors |-> <<>>]

ReturnedErr(context) == [done |-> TRUE, multi |-> FALSE, errors |-> <<context>>]

\* A screenshot of every failure, whatever the configuration says.
ShouldScreenshotAnyFailure(r, flag) == r.errors # <<>>

\* webdriver.rs:66
ShouldScreenshot(r, flag) == r.errors # <<>> /\ flag

WebdriverInit ==
    /\ wd_pc = "prefs"
    /\ screenshot_on_failure \in BOOLEAN
    /\ driver_calls = <<>>
    /\ res_f = NotRun
    /\ res_screenshot = NotRun
    /\ res_shutdown = NotRun
    /\ wd_result = NotReturned

WebdriverRest ==
    <<streamVars, mainAll, retryVars, sessionVars, decryptVars, decodeVars, emlVars,
      blobVars, downloadVars>>

\* The ? of a set-up step: run_webdriver returns the error.
SetupStep(pc, next, context) ==
    /\ wd_pc = pc
    /\ \/ /\ wd_pc' = next
          /\ UNCHANGED wd_result
       \/ /\ wd_pc' = "returned"
          /\ wd_result' = ReturnedErr(context)
    /\ UNCHANGED <<screenshot_on_failure, res_f, res_screenshot, res_shutdown>>
    /\ UNCHANGED WebdriverRest

\* webdriver.rs:36-51
SetPrefs == SetupStep("prefs", "caps", "set pref") /\ UNCHANGED driver_calls

\* webdriver.rs:53-55
SetCaps ==
    /\ \E context \in {"set preferences", "enable headless"} :
          SetupStep("caps", "new", context)
    /\ UNCHANGED driver_calls

\* webdriver.rs:57-60
NewDriver ==
    /\ SetupStep("new", "maximize", "webdriver setup")
    /\ driver_calls' = Append(driver_calls, "new")

\* webdriver.rs:61-62
MaximizeWindow ==
    /\ SetupStep("maximize", "f", "maximize window")
    /\ driver_calls' = Append(driver_calls, "maximize_window")

\* webdriver.rs:64: f borrows the driver and calls it while it runs.
FCallsDriver ==
    /\ wd_pc = "f"
    /\ Cardinality({i \in DOMAIN driver_calls : driver_calls[i] = "f"}) < MaxDriverCalls
    /\ driver_calls' = Append(driver_calls, "f")
    /\ UNCHANGED <<wd_pc, screenshot_on_failure, res_f, res_screenshot, res_shutdown,
                   wd_result>>
    /\ UNCHANGED WebdriverRest

\* webdriver.rs:64-73: f finishes; without a screenshot to take its result
\* is Ok(()).
FFinishes ==
    /\ wd_pc = "f"
    /\ \E r \in {OkResult, ErrResult("f")} :
        /\ res_f' = r
        /\ IF ShouldScreenshot(r, screenshot_on_failure)
           THEN /\ wd_pc' = "screenshot"
                /\ UNCHANGED res_screenshot
           ELSE /\ wd_pc' = "quit"
                /\ res_screenshot' = OkResult
    /\ UNCHANGED <<screenshot_on_failure, driver_calls, res_shutdown, wd_result>>
    /\ UNCHANGED WebdriverRest

\* webdriver.rs:67-70
Screenshot ==
    /\ wd_pc = "screenshot"
    /\ driver_calls' = Append(driver_calls, "screenshot")
    /\ \E r \in {OkResult, ErrResult("create screenshot")} : res_screenshot' = r
    /\ wd_pc' = "quit"
    /\ UNCHANGED <<screenshot_on_failure, res_f, res_shutdown, wd_result>>
    /\ UNCHANGED WebdriverRest

\* webdriver.rs:75
Quit ==
    /\ wd_pc = "quit"
    /\ driver_calls' = Append(driver_calls, "quit")
    /\ \E r \in {OkResult, ErrResult("webdriver shutdown")} : res_shutdown' = r
    /\ wd_pc' = "combine"
    /\ UNCHANGED <<screenshot_on_failure, res_f, res_screenshot, wd_result>>
    /\ UNCHANGED WebdriverRest

\* webdriver.rs:77-83
Return ==
    /\ wd_pc = "combine"
    /\ LET errors == combine(combine(res_shutdown.errors, res_screenshot.errors),
                             res_f.errors)
       IN wd_result' = IF errors = <<>> THEN ReturnedOk ELSE into_anyhow(errors)
    /\ wd_pc' = "returned"
    /\ UNCHANGED <<screenshot_on_failure, driver_calls, res_f, res_screenshot, res_shutdown>>
    /\ UNCHANGED WebdriverRest

WebdriverNext ==
    \/ SetPrefs
    \/ SetCaps
    \/ NewDriver
    \/ MaximizeWindow
    \/ FCallsDriver
    \/ FFinishes
    \/ Screenshot
    \/ Quit
    \/ Return

\* The positions in the call log of the calls named call.
CallsOf(call) == {i \in DOMAIN driver_calls : driver_calls[i] = call}

\* f has been invoked.
FInvoked == wd_pc = "f" \/ res_f.done

\* C22: once f has been invoked, driver.quit() is called exactly once, after
\* f has finished, whether f returned Ok or Err and whether the screenshot
\* succeeded; a screenshot is attempted only when f failed and
\* screenshot_on_failure is set; and the result is Ok only if f, the
\* screenshot and the shutdown all succeeded and carries every error
\* otherwise.
C22_QuitOnceAndAllErrorsReported ==
    /\ Cardinality(CallsOf("quit")) <= 1
    /\ \A q \in CallsOf("quit") :
          /\ res_f.done
          /\ q = Len(driver_calls)
          /\ \A i \in CallsOf("f") \cup CallsOf("screenshot") : i < q
    /\ CallsOf("screenshot") # {} => res_f.errors # <<>> /\ screenshot_on_failure
    /\ Cardinality(CallsOf("screenshot")) <= 1
    /\ (wd_pc = "returned" /\ FInvoked) =>
          /\ Cardinality(CallsOf("quit")) = 1
          /\ wd_result.done
          /\ wd_result.errors = <<>> <=>
                (res_f = OkResult /\ res_screenshot = OkResult /\ res_shutdown = OkResult)
          /\ \A r \in {res_f, res_screenshot, res_shutdown} :
                \A i \in DOMAIN r.errors :
                    \E j \in DOMAIN wd_result.errors : wd_result.errors[j] = r.errors[i]
          /\ Len(wd_result.errors) =
                Len(res_f.errors) + Len(res_screenshot.errors) + Len(res_shutdown.errors)
          /\ wd_result.multi <=> Len(wd_result.errors) > 1

\* f failed after calling the driver, the screenshot failed, the shutdown
\* failed, and run_webdriver returned the three errors.
C22_Witness ==
    /\ wd_pc = "returned"
    /\ screenshot_on_failure
    /\ Cardinality(CallsOf("f")) = MaxDriverCalls
    /\ wd_result.errors = <<"webdriver shutdown", "create screenshot", "f">>

(***************************************************************************)
(* get_mail_blob, get_attachment_blob and get_access (blob.rs).  An        *)
(* Option is a sequence of at most one element.                            *)
(***************************************************************************)
ListIds == {"l1"}

InstanceIds == {"i1", "i2"}

ServerUrls == {"s1", "s2"}

BlobAccessTokens == {"t1", "t2"}

\* client.rs:20, by name.
DEFAULT_HOST == "app"

\* The calls of get_mail_blob (blob.rs:16-21) and of get_attachment_blob
\* (blob.rs:56-63); get_mail_blob has no instance arguments.
BlobCalls ==
    [fn : {"get_mail_blob"}, archive_id : {"a1"}, blob_id : {"b1"},
     instance_list_id : {""}, instance_id : {""}]
    \cup [fn : {"get_attachment_blob"}, archive_id : {"a1"}, blob_id : {"b1"},
          instance_list_id : ListIds, instance_id : InstanceIds]

\* blob.rs:22-28 and 64-70: the arguments the two functions hand to
\* get_access.
AccessArguments(call) ==
    IF call.fn = "get_mail_blob"
    THEN [archive_data_type |-> "MailDetails", instance |-> <<>>]
    ELSE [archive_data_type |-> "Attachments",
          instance |-> << <<call.instance_list_id, call.instance_id>> >>]

\* blob.rs:113-124: instance is an Option of a (list id, instance id) pair;
\* instance_ids holds the instance id of the pair, instance_list_id the
\* list id.
BlobReadRequest(archive_id, instance) ==
    [archive_id |-> archive_id,
     instance_ids |-> [k \in DOMAIN instance |-> instance[k][2]],
     instance_list_id |-> [k \in DOMAIN instance |-> instance[k][1]]]

\* The replies to the access request: BlobAccessInfo (messages.rs:218-223),
\* no server being listed twice.
BlobAccessInfos ==
    [blob_access_token : BlobAccessTokens,
     servers : {l \in SeqsUpTo(ServerUrls, MaxServers) :
                   \A i, j \in DOMAIN l : l[i] = l[j] => i = j}]

NoReply == [ok |-> FALSE, blob_access_token |-> "", servers |-> <<>>]

ReplyOf(info) ==
    [ok |-> TRUE, blob_access_token |-> info.blob_access_token, servers |-> info.servers]

\* A get_access that takes the server listed last.
ServerOfReplyLast(servers) == servers[Len(servers)]

\* blob.rs:140: servers.first()
ServerOfReply(servers) == servers[1]

\* blob.rs:110-138: the access request of call number c.
AccessRequest(c, call, reply) ==
    LET a == AccessArguments(call)
        read == BlobReadRequest(call.archive_id, a.instance)
    IN [method |-> "POST", call |-> c, host |-> DEFAULT_HOST,
        path |-> "storage/blobaccesstokenservice",
        archive_data_type |-> a.archive_data_type,
        archive_id |-> read.archive_id,
        instance_ids |-> read.instance_ids,
        instance_list_id |-> read.instance_list_id,
        blob_access_token |-> "",
        reply |-> reply]

\* blob.rs:32-47 and 74-98: the blob request of call number c.
BlobRequest(c, call, access) ==
    [method |-> "GET", call |-> c, host |-> access.server_url,
     path |-> IF call.fn = "get_mail_blob"
              THEN "tutanota/maildetailsblob"
              ELSE "storage/blobservice",
     archive_data_type |-> "",
     archive_id |-> call.archive_id,
     instance_ids |-> <<>>,
     instance_list_id |-> <<>>,
     blob_access_token |-> access.blob_access_token,
     reply |-> NoReply]

BlobInit ==
    /\ blob_pc = "idle"
    /\ blob_calls = <<>>
    /\ blob_access = <<>>
    /\ blob_log = <<>>
    /\ blob_results = <<>>

BlobRest ==
    <<streamVars, mainAll, retryVars, sessionVars, decryptVars, decodeVars, emlVars,
      webdriverVars, downloadVars>>

\* blob.rs:103-138: a call starts, get_access posts the request and the
\* request fails.
AccessRequestFails ==
    /\ blob_pc = "idle"
    /\ Len(blob_calls) < MaxBlobCalls
    /\ \E call \in BlobCalls :
        /\ blob_calls' = Append(blob_calls, call)
        /\ blob_log' = Append(blob_log,
                              AccessRequest(Len(blob_calls) + 1, call, NoReply))
    /\ blob_results' = Append(blob_results, "get blob access")
    /\ UNCHANGED <<blob_pc, blob_access>>
    /\ UNCHANGED BlobRest

\* blob.rs:103-148: a call starts, get_access posts the request and gets a
\* reply; without a server in it the call fails.
AccessReply ==
    /\ blob_pc = "idle"
    /\ Len(blob_calls) < MaxBlobCalls
    /\ \E call \in BlobCalls, info \in BlobAccessInfos :
        /\ blob_calls' = Append(blob_calls, call)
        /\ blob_log' = Append(blob_log,
                              AccessRequest(Len(blob_calls) + 1, call, ReplyOf(info)))
        /\ IF info.servers = <<>>
           THEN /\ blob_results' = Append(blob_results, "get blob access")
                /\ UNCHANGED <<blob_pc, blob_access>>
           ELSE /\ blob_access' = <<[server_url |-> ServerOfReply(info.servers),
                                     blob_access_token |-> info.blob_access_token]>>
                /\ blob_pc' = "get"
                /\ UNCHANGED blob_results
    /\ UNCHANGED BlobRest

\* blob.rs:32-53 and 74-100: the blob request and its outcome; the reply to
\* get_mail_blob must hold exactly one blob.
BlobGet ==
    /\ blob_pc = "get"
    /\ LET c == Len(blob_calls) IN
        /\ blob_log' = Append(blob_log, BlobRequest(c, blob_calls[c], blob_access[1]))
        /\ \E r \in {"Ok", "blob download"}
                   \cup (IF blob_calls[c].fn = "get_mail_blob"
                         THEN {"invalid reponse length"} ELSE {}) :
              blob_results' = Append(blob_results, r)
    /\ blob_pc' = "idle"
    /\ blob_access' = <<>>
    /\ UNCHANGED blob_calls
    /\ UNCHANGED BlobRest

BlobNext ==
    \/ AccessRequestFails
    \/ AccessReply
    \/ BlobGet

\* The positions in the log of the blob requests of call c.
GetsOf(c) == {i \in DOMAIN blob_log : blob_log[i].method = "GET" /\ blob_log[i].call = c}

\* C24: every blob GET is preceded by its own successful POST to
\* storage/blobaccesstokenservice and uses the blobAccessToken and the first
\* server URL of the reply to that POST; a reply without a server fails the
\* call and no GET follows; the access request for an attachment carries
\* the owning instanceListId and exactly one instanceId, the one for mail
\* details carries neither.
C24_BlobGetFollowsOwnAccessToken ==
    /\ \A i \in DOMAIN blob_log :
          blob_log[i].method = "GET" =>
              /\ i > 1
              /\ LET post == blob_log[i - 1] IN
                    /\ post.method = "POST"
                    /\ post.path = "storage/blobaccesstokenservice"
                    /\ post.call = blob_log[i].call
                    /\ post.archive_id = blob_log[i].archive_id
                    /\ post.reply.ok
                    /\ post.reply.servers # <<>>
                    /\ blob_log[i].host = post.reply.servers[1]
                    /\ blob_log[i].blob_access_token = post.reply.blob_access_token
              /\ GetsOf(blob_log[i].call) = {i}
    /\ \A i \in DOMAIN blob_log :
          (blob_log[i].method = "POST" /\ blob_log[i].reply.servers = <<>>) =>
              /\ GetsOf(blob_log[i].call) = {}
              /\ blob_log[i].call \in DOMAIN blob_results
              /\ blob_results[blob_log[i].call] = "get blob access"
    /\ \A i \in DOMAIN blob_log :
          blob_log[i].method = "POST" =>
              LET call == blob_calls[blob_log[i].call] IN
              IF call.fn = "get_attachment_blob"
              THEN /\ blob_log[i].archive_data_type = "Attachments"
                   /\ blob_log[i].instance_list_id = <<call.instance_list_id>>
                   /\ blob_log[i].instance_ids = <<call.instance_id>>
              ELSE /\ blob_log[i].archive_data_type = "MailDetails"
                   /\ blob_log[i].instance_list_id = <<>>
                   /\ blob_log[i].instance_ids = <<>>

\* A mail blob and an attachment blob were fetched one after the other, from
\* different servers with different tokens, the second reply listing two
\* servers.
C24_Witness ==
    /\ Len(blob_log) = 4
    /\ blob_results = <<"Ok", "Ok">>
    /\ blob_calls[1].fn = "get_mail_blob"
    /\ blob_calls[2].fn = "get_attachment_blob"
    /\ blob_log[2].host = "s1"
    /\ blob_log[2].blob_access_token = "t1"
    /\ blob_log[3].reply.servers = <<"s2", "s1">>
    /\ blob_log[4].host = "s2"
    /\ blob_log[4].blob_access_token = "t2"

(***************************************************************************)
(* The attachments of Mail::download (mails.rs:121-229) and download_file  *)
(* (mails.rs:231-294).                                                     *)
(***************************************************************************)
AttachmentGroups == {"l1", "l2"}

AttachmentIds == {"i1", "i2"}

\* Mail.attachments (mails.rs:52): pairs of group id and file id.
AttachmentLists == SeqsUpTo(AttachmentGroups \X AttachmentIds, MaxAttachments)

\* The replies to the file-info request: one entry per file, each with its
\* number of blobs; the server may send fewer or more files than asked for.
FileInfoLists == SeqsUpTo(0..MaxFileBlobs, MaxAttachments + 1)

\* mails.rs:183-186
InconsistentGroups(attachments) ==
    \E k \in DOMAIN attachments : attachments[k][1] # attachments[1][1]

\* mails.rs:187-191
IdsOf(attachments) == [k \in DOMAIN attachments |-> attachments[k][2]]

\* A check that only asks for enough files.
CountsMatchAtLeast(ids, files) == Len(files) >= Len(ids)

\* mails.rs:205-210
CountsMatch(ids, files) == Len(ids) = Len(files)

\* mails.rs:211: zip ends with the shorter of the two.
Zipped(ids, files) == 1..Min(Len(ids), Len(files))

\* The requests of download: the mail details blob, the file infos
\* (mails.rs:192-203) and one attachment blob (mails.rs:266).
DetailsRequest == [path |-> "maildetailsblob", group |-> "", ids |-> <<>>]

FileRequest(group, ids) == [path |-> "file", group |-> group, ids |-> ids]

AttachmentBlobRequest(group, id) ==
    [path |-> "blobservice", group |-> group, ids |-> <<id>>]

DownloadInit ==
    /\ dl_pc = "details"
    /\ dl_attachments \in AttachmentLists
    /\ dl_files = <<>>
    /\ dl_idx = 0
    /\ dl_blobs = 0
    /\ dl_log = <<>>
    /\ dl_attached = 0
    /\ dl_result = "none"

DownloadRest ==
    <<streamVars, mainAll, retryVars, sessionVars, decryptVars, decodeVars, emlVars,
      webdriverVars, blobVars>>

\* download returns the error e.
DownloadFails(e) ==
    /\ dl_pc' = "returned"
    /\ dl_result' = e

\* mails.rs:126-179: the mail details are fetched and decoded, or one of
\* the steps fails.
DownloadDetails ==
    /\ dl_pc = "details"
    /\ dl_log' = Append(dl_log, DetailsRequest)
    /\ \/ dl_pc' = "attachments" /\ UNCHANGED dl_result
       \/ \E e \in {"download mail details", "decode body", "decode headers",
                     "decode BCC", "decode CC", "decode To"} : DownloadFails(e)
    /\ UNCHANGED <<dl_attachments, dl_files, dl_idx, dl_blobs, dl_attached>>
    /\ UNCHANGED DownloadRest

\* mails.rs:181-182, 220-228: a mail without attachments.
NoAttachments ==
    /\ dl_pc = "attachments"
    /\ dl_attachments = <<>>
    /\ dl_pc' = "returned"
    /\ dl_result' = "Ok"
    /\ UNCHANGED <<dl_attachments, dl_files, dl_idx, dl_blobs, dl_log, dl_attached>>
    /\ UNCHANGED DownloadRest

\* mails.rs:183-186
GroupsDisagree ==
    /\ dl_pc = "attachments"
    /\ dl_attachments # <<>>
    /\ InconsistentGroups(dl_attachments)
    /\ DownloadFails("inconsistent attachement group IDs")
    /\ UNCHANGED <<dl_attachments, dl_files, dl_idx, dl_blobs, dl_log, dl_attached>>
    /\ UNCHANGED DownloadRest

\* mails.rs:187-210: the file infos are requested; the request fails, or
\* the number of files is checked against the number of ids.
GetFileInfos ==
    /\ dl_pc = "attachments"
    /\ dl_attachments # <<>>
    /\ ~InconsistentGroups(dl_attachments)
    /\ LET ids == IdsOf(dl_attachments) IN
        /\ dl_log' = Append(dl_log, FileRequest(dl_attachments[1][1], ids))
        /\ \/ /\ DownloadFails("get file infos")
              /\ UNCHANGED <<dl_files, dl_idx>>
           \/ \E files \in FileInfoLists :
                /\ dl_files' = <<files>>
                /\ IF CountsMatch(ids, files)
                   THEN /\ dl_pc' = "file"
                        /\ dl_idx' = 1
                        /\ UNCHANGED dl_result
                   ELSE /\ DownloadFails("attachment IDs and files match")
                        /\ UNCHANGED dl_idx
    /\ UNCHANGED <<dl_attachments, dl_blobs, dl_attached>>
    /\ UNCHANGED DownloadRest

\* The file download_file is working on is one of the zipped pairs.
InFile == dl_pc = "file" /\ dl_idx \in Zipped(IdsOf(dl_attachments), dl_files[1])

\* mails.rs:238-260: the session key of the file or one of its encrypted
\* fields cannot be decrypted.
FileFieldsFail ==
    /\ InFile
    /\ dl_blobs = 0
    /\ DownloadFails("download file")
    /\ UNCHANGED <<dl_attachments, dl_files, dl_idx, dl_blobs, dl_log, dl_attached>>
    /\ UNCHANGED DownloadRest

\* mails.rs:264-278: the next blob of the file is fetched, checked and
\* decrypted, or one of these fails.
FetchAttachmentBlob ==
    /\ InFile
    /\ dl_blobs < dl_files[1][dl_idx]
    /\ dl_log' = Append(dl_log, AttachmentBlobRequest(dl_attachments[1][1],
                                                      IdsOf(dl_attachments)[dl_idx]))
    /\ \/ dl_blobs' = dl_blobs + 1 /\ UNCHANGED <<dl_pc, dl_result>>
       \/ DownloadFails("download file") /\ UNCHANGED dl_blobs
    /\ UNCHANGED <<dl_attachments, dl_files, dl_idx, dl_attached>>
    /\ UNCHANGED DownloadRest

\* mails.rs:211-217, 288-293: the file is complete and pushed.
FileDone ==
    /\ InFile
    /\ dl_blobs = dl_files[1][dl_idx]
    /\ dl_attached' = dl_attached + 1
    /\ dl_idx' = dl_idx + 1
    /\ dl_blobs' = 0
    /\ UNCHANGED <<dl_pc, dl_attachments, dl_files, dl_log, dl_result>>
    /\ UNCHANGED DownloadRest

\* mails.rs:217-228: the loop has ended.
DownloadReturns ==
    /\ dl_pc = "file"
    /\ dl_idx \notin Zipped(IdsOf(dl_attachments), dl_files[1])
    /\ dl_pc' = "returned"
    /\ dl_result' = "Ok"
    /\ UNCHANGED <<dl_attachments, dl_files, dl_idx, dl_blobs, dl_log, dl_attached>>
    /\ UNCHANGED DownloadRest

DownloadNext ==
    \/ DownloadDetails
    \/ NoAttachments
    \/ GroupsDisagree
    \/ GetFileInfos
    \/ FileFieldsFail
    \/ FetchAttachmentBlob
    \/ FileDone
    \/ DownloadReturns

\* A request to path is in the log.
Sent(path) == \E i \in DOMAIN dl_log : dl_log[i].path = path

\* The attachment references name more than one group.
SeveralGroups == Cardinality({dl_attachments[k][1] : k \in DOMAIN dl_attachments}) > 1

\* C25: download returns a DownloadedMail with attachments only when all
\* attachment references share one group id and the file-info response has
\* exactly as many entries as there are attachment ids; when the group ids
\* disagree it fails before the file-info request, and when the counts
\* differ it fails before any attachment blob request.
C25_AttachmentsConsistent ==
    /\ (dl_result = "Ok" /\ dl_attachments # <<>>) =>
          /\ ~SeveralGroups
          /\ dl_files # <<>>
          /\ Len(dl_files[1]) = Len(dl_attachments)
          /\ dl_attached = Len(dl_attachments)
    /\ dl_attached > 0 => ~SeveralGroups /\ Len(dl_files[1]) = Len(dl_attachments)
    /\ SeveralGroups =>
          /\ ~Sent("file")
          /\ ~Sent("blobservice")
          /\ dl_pc = "returned" => dl_result \notin {"none", "Ok"}
          /\ dl_result \in {"none", "inconsistent attachement group IDs",
                             "download mail details", "decode body", "decode headers",
                             "decode BCC", "decode CC", "decode To"}
    /\ (dl_files # <<>> /\ Len(dl_files[1]) # Len(dl_attachments)) =>
          /\ ~Sent("blobservice")
          /\ dl_attached = 0
          /\ dl_pc = "returned"
          /\ dl_result = "attachment IDs and files match"

\* The server answered a request for two files with three, each with a
\* blob, and download failed after the file-info request.
C25_Witness ==
    /\ Len(dl_attachments) = 2
    /\ ~SeveralGroups
    /\ dl_files = << <<1, 1, 1>> >>
    /\ Sent("file")
    /\ dl_pc = "returned"

(***************************************************************************)
(* The specifications.                                                     *)
(***************************************************************************)
\* The download machine at rest, for the specification of the stream.
MainIdle ==
    /\ main_pc = "login"
    /\ logged_in = FALSE
    /\ command = "ListFolders"
    /\ conc = 0
    /\ cmd_pc = "listen"
    /\ cmd_res = "none"
    /\ logout_res = "none"
    /\ exit_errs = {}
    /\ logout_calls = 0
    /\ logout_sends = 0
    /\ signalled = FALSE
    /\ mails = <<>>
    /\ next_mail = 1
    /\ task = <<>>
    /\ tfd = <<>>
    /\ tpos = <<>>
    /\ ttries = <<>>
    /\ dir_target = [n \in Names |-> 0]
    /\ dir_part = [n \in Names |-> 0]
    /\ content = [i \in Inodes |-> <<>>]

\* The stream machine at rest, for the specification of main.
StreamIdle ==
    /\ server = <<>>
    /\ next_start = InitialStart
    /\ fetch_pc = "request"
    /\ elements = <<>>
    /\ chan = <<>>
    /\ rx = "open"
    /\ received = <<>>
    /\ requests = <<>>
    /\ pages = <<>>

\* The retry machine at rest.
RetryIdle ==
    /\ retry_wrapper = "client"
    /\ should_retry = "condition"
    /\ retry_pc = "returned"
    /\ retry_attempts = 0
    /\ retry_last = <<>>
    /\ retry_result = "none"
    /\ retry_elapsed = 0
    /\ retry_sleep = 0

\* The session machine at rest.
SessionIdle ==
    /\ login_pc = "returned"
    /\ login_requests = <<>>
    /\ challenges = 0
    /\ user_data = <<>>
    /\ login_result = "none"
    /\ group_keys = <<>>
    /\ got = [g \in GroupIds \cup {UserGroupId} |-> {}]
    /\ mail_membership = <<>>
    /\ access_token = <<>>
    /\ session_logout = "none"

\* The pure functions with no call made.
DecryptIdle ==
    /\ encryption_key = [kind |-> "Aes128", id |-> "k1", derived |-> <<>>]
    /\ value = <<>>
    /\ original = <<>>
    /\ changed_at = 0
    /\ called = "none"
    /\ decrypted = WithoutAes("", NoCall)

DecodeIdle ==
    /\ resp = <<>>
    /\ decoded = <<>>

EmlIdle ==
    /\ downloaded = <<>>
    /\ eml = <<>>

WebdriverIdle ==
    /\ wd_pc = "returned"
    /\ screenshot_on_failure = FALSE
    /\ driver_calls = <<>>
    /\ res_f = NotRun
    /\ res_screenshot = NotRun
    /\ res_shutdown = NotRun
    /\ wd_result = NotReturned

BlobIdle ==
    /\ blob_pc = "idle"
    /\ blob_calls = <<>>
    /\ blob_access = <<>>
    /\ blob_log = <<>>
    /\ blob_results = <<>>

DownloadIdle ==
    /\ dl_pc = "returned"
    /\ dl_attachments = <<>>
    /\ dl_files = <<>>
    /\ dl_idx = 0
    /\ dl_blobs = 0
    /\ dl_log = <<>>
    /\ dl_attached = 0
    /\ dl_result = "none"

\* The machines declared last at rest.
LateIdle == WebdriverIdle /\ BlobIdle /\ DownloadIdle

OthersIdle ==
    RetryIdle /\ SessionIdle /\ DecryptIdle /\ DecodeIdle /\ EmlIdle /\ LateIdle

InitStream == StreamInit /\ MainIdle /\ OthersIdle

SpecStream == InitStream /\ [][StreamNext]_vars

Init == MainInit /\ StreamIdle /\ OthersIdle

Spec == Init /\ [][MainNext]_vars

InitRetry ==
    RetryInit /\ MainIdle /\ StreamIdle /\ SessionIdle /\ DecryptIdle /\ DecodeIdle /\ EmlIdle /\ LateIdle

SpecRetry == InitRetry /\ [][RetryNext]_vars

InitSession ==
    LoginInit /\ MainIdle /\ StreamIdle /\ RetryIdle /\ DecryptIdle /\ DecodeIdle /\ EmlIdle /\ LateIdle

SpecSession == InitSession /\ [][SessionNext]_vars

InitDecrypt ==
    DecryptInit /\ MainIdle /\ StreamIdle /\ RetryIdle /\ SessionIdle /\ DecodeIdle /\ EmlIdle /\ LateIdle

SpecDecrypt == InitDecrypt /\ [][DecryptNext]_vars

InitDecode ==
    DecodeInit /\ MainIdle /\ StreamIdle /\ RetryIdle /\ SessionIdle /\ DecryptIdle /\ EmlIdle /\ LateIdle

SpecDecode == InitDecode /\ [][DecodeNext]_vars

InitEml ==
    EmlInit /\ MainIdle /\ StreamIdle /\ RetryIdle /\ SessionIdle /\ DecryptIdle /\ DecodeIdle /\ LateIdle

SpecEml == InitEml /\ [][EmlNext]_vars

InitWebdriver ==
    /\ WebdriverInit
    /\ MainIdle /\ StreamIdle /\ RetryIdle /\ SessionIdle
    /\ DecryptIdle /\ DecodeIdle /\ EmlIdle /\ BlobIdle /\ DownloadIdle

SpecWebdriver == InitWebdriver /\ [][WebdriverNext]_vars

InitBlob ==
    /\ BlobInit
    /\ MainIdle /\ StreamIdle /\ RetryIdle /\ SessionIdle
    /\ DecryptIdle /\ DecodeIdle /\ EmlIdle /\ WebdriverIdle /\ DownloadIdle

SpecBlob == InitBlob /\ [][BlobNext]_vars

InitDownload ==
    /\ DownloadInit
    /\ MainIdle /\ StreamIdle /\ RetryIdle /\ SessionIdle
    /\ DecryptIdle /\ DecodeIdle /\ EmlIdle /\ WebdriverIdle /\ BlobIdle

SpecDownload == InitDownload /\ [][DownloadNext]_vars

====
